---- MODULE Spec2Model ----
(***************************************************************************)
(* Model of the Sensor Tower response cache, the essential-data extractor  *)
(* and the two revenue tool handlers of app-revenue-mcp.                   *)
(*                                                                         *)
(* Strings are sequences of one-character strings, so that template        *)
(* literals are concatenations and String.prototype.includes is a          *)
(* substring search.  JavaScript values are tagged records.                *)
(***************************************************************************)
EXTENDS Integers, Sequences, FiniteSets, TLC

(***************************************************************************)
(* Bounds of the model.                                                    *)
(***************************************************************************)
MaxIds == 2
MaxInvocations == 3
MaxTicks == 2
MaxRelated == 4
MaxIaps == 4
MaxSmallCents == 1200
MaxCategories == 2

\* Tool invocations that may be in progress at the same time
Slots == {"A", "B"}

\* Date.now() is read in seconds: 32-bit integers cannot hold the
\* milliseconds of thirty days
CACHE_DURATION == 30 * 24 * 60 * 60

(***************************************************************************)
(* String literals of the source.                                          *)
(***************************************************************************)
IosKeyPrefix ==
    <<"i", "o", "s", "_">>
AndroidKeyPrefix ==
    <<"a", "n", "d", "r", "o", "i", "d", "_">>
IosEndpointBase ==
    <<"h", "t", "t", "p", "s", ":", "/", "/", "a", "p", "p", ".", "s", "e", "n", "s", "o", "r", "t", "o", "w", "e", "r", ".", "c", "o", "m", "/", "a", "p", "i", "/", "i", "o", "s", "/", "a", "p", "p", "s", "/">>
AndroidEndpointBase ==
    <<"h", "t", "t", "p", "s", ":", "/", "/", "a", "p", "p", ".", "s", "e", "n", "s", "o", "r", "t", "o", "w", "e", "r", ".", "c", "o", "m", "/", "a", "p", "i", "/", "a", "n", "d", "r", "o", "i", "d", "/", "a", "p", "p", "s", "/">>
CountryQuery ==
    <<"?", "c", "o", "u", "n", "t", "r", "y", "=">>
RateLimitMessage ==
    <<"R", "a", "t", "e", " ", "l", "i", "m", "i", "t", " ", "e", "x", "c", "e", "e", "d", "e", "d", ".", " ", "P", "l", "e", "a", "s", "e", " ", "t", "r", "y", " ", "a", "g", "a", "i", "n", " ", "l", "a", "t", "e", "r", ".">>
RateLimitMarker ==
    <<"R", "a", "t", "e", " ", "l", "i", "m", "i", "t">>
WrapPrefix ==
    <<"F", "a", "i", "l", "e", "d", " ", "t", "o", " ", "f", "e", "t", "c", "h", " ", "d", "a", "t", "a", " ", "f", "r", "o", "m", " ", "S", "e", "n", "s", "o", "r", " ", "T", "o", "w", "e", "r", ":", " ">>
HttpPrefix ==
    <<"H", "T", "T", "P", " ">>
ExtractPrefix ==
    <<"F", "a", "i", "l", "e", "d", " ", "t", "o", " ", "e", "x", "t", "r", "a", "c", "t", " ", "d", "a", "t", "a", ":", " ">>

(***************************************************************************)
(* Texts produced by the runtime and by the upstream, not by the source.   *)
(***************************************************************************)
TextOK ==
    <<"O", "K">>
TextTooManyRequests ==
    <<"T", "o", "o", " ", "M", "a", "n", "y", " ", "R", "e", "q", "u", "e", "s", "t", "s">>
TextInternalServerError ==
    <<"I", "n", "t", "e", "r", "n", "a", "l", " ", "S", "e", "r", "v", "e", "r", " ", "E", "r", "r", "o", "r">>
TextRateLimitReached ==
    <<"R", "a", "t", "e", " ", "l", "i", "m", "i", "t", " ", "r", "e", "a", "c", "h", "e", "d">>
TextFetchFailed ==
    <<"f", "e", "t", "c", "h", " ", "f", "a", "i", "l", "e", "d">>
TextUnexpectedToken ==
    <<"U", "n", "e", "x", "p", "e", "c", "t", "e", "d", " ", "t", "o", "k", "e", "n", " ", "<", " ", "i", "n", " ", "J", "S", "O", "N", " ", "a", "t", " ", "p", "o", "s", "i", "t", "i", "o", "n", " ", "0">>
TextNotAFunction ==
    <<"r", "a", "w", "D", "a", "t", "a", ".", "r", "e", "l", "a", "t", "e", "d", "_", "a", "p", "p", "s", "?", ".", "s", "l", "i", "c", "e", " ", "i", "s", " ", "n", "o", "t", " ", "a", " ", "f", "u", "n", "c", "t", "i", "o", "n">>
TextTopCountriesNotAFunction ==
    <<"r", "a", "w", "D", "a", "t", "a", ".", "t", "o", "p", "_", "c", "o", "u", "n", "t", "r", "i", "e", "s", "?", ".", "s", "l", "i", "c", "e", " ", "i", "s", " ", "n", "o", "t", " ", "a", " ", "f", "u", "n", "c", "t", "i", "o", "n">>
TextMapNotAFunction ==
    <<"r", "a", "w", "D", "a", "t", "a", ".", "r", "e", "l", "a", "t", "e", "d", "_", "a", "p", "p", "s", "?", ".", "s", "l", "i", "c", "e", "(", ".", ".", ".", ")", "?", ".", "m", "a", "p", " ", "i", "s", " ", "n", "o", "t", " ", "a", " ", "f", "u", "n", "c", "t", "i", "o", "n">>
TextNullCompetitor ==
    <<"C", "a", "n", "n", "o", "t", " ", "r", "e", "a", "d", " ", "p", "r", "o", "p", "e", "r", "t", "i", "e", "s", " ", "o", "f", " ", "n", "u", "l", "l", " ", "(", "r", "e", "a", "d", "i", "n", "g", " ", "'", "n", "a", "m", "e", "'", ")">>
TextNullEssential ==
    <<"C", "a", "n", "n", "o", "t", " ", "r", "e", "a", "d", " ", "p", "r", "o", "p", "e", "r", "t", "i", "e", "s", " ", "o", "f", " ", "n", "u", "l", "l", " ", "(", "r", "e", "a", "d", "i", "n", "g", " ", "'", "c", "o", "m", "p", "e", "t", "i", "t", "i", "v", "e", "_", "a", "n", "a", "l", "y", "s", "i", "s", "'", ")">>

(***************************************************************************)
(* String operations.                                                      *)
(***************************************************************************)
Digit(d) ==
    CASE d = 0 -> "0" [] d = 1 -> "1" [] d = 2 -> "2" [] d = 3 -> "3"
      [] d = 4 -> "4" [] d = 5 -> "5" [] d = 6 -> "6" [] d = 7 -> "7"
      [] d = 8 -> "8" [] d = 9 -> "9"

RECURSIVE NumberToString(_)
NumberToString(n) ==
    IF n < 10 THEN <<Digit(n)>>
    ELSE NumberToString(n \div 10) \o <<Digit(n % 10)>>

Includes(s, needle) ==
    \E k \in 0..(Len(s) - Len(needle)) :
        SubSeq(s, k + 1, k + Len(needle)) = needle

StartsWith(s, prefix) ==
    /\ Len(prefix) <= Len(s)
    /\ SubSeq(s, 1, Len(prefix)) = prefix

(***************************************************************************)
(* JavaScript values.                                                      *)
(***************************************************************************)
Undefined == [t |-> "undefined"]
Null == [t |-> "null"]
Bool(b) == [t |-> "bool", v |-> b]
Num(n) == [t |-> "num", v |-> n]
Str(s) == [t |-> "str", v |-> s]
List(s) == [t |-> "list", v |-> s]
Obj(f) == [t |-> "obj", v |-> f]
EmptyObj == Obj(<<>>)

Nullish(x) == x.t \in {"undefined", "null"}

Truthy(x) ==
    CASE x.t \in {"undefined", "null"} -> FALSE
      [] x.t = "bool" -> x.v
      [] x.t = "num" -> x.v # 0
      [] x.t = "str" -> x.v # <<>>
      [] OTHER -> TRUE

\* a || b
Or(a, b) == IF Truthy(a) THEN a ELSE b

\* x.k for a value x that is not null or undefined
Prop(x, k) ==
    IF x.t = "obj" /\ k \in DOMAIN x.v THEN x.v[k] ELSE Undefined

\* x?.k
OptProp(x, k) == IF Nullish(x) THEN Undefined ELSE Prop(x, k)

\* x?.[0]
OptFirst(x) ==
    CASE x.t = "list" /\ Len(x.v) >= 1 -> x.v[1]
      [] x.t = "str" /\ Len(x.v) >= 1 -> Str(<<x.v[1]>>)
      [] OTHER -> Prop(x, "0")

Min(a, b) == IF a <= b THEN a ELSE b

\* a slice that keeps every element
SliceAll(s) == s

\* Array.prototype.slice(0, 3)
Slice3(s) == SubSeq(s, 1, Min(Len(s), 3))

Throw(m) == [t |-> "throw", msg |-> m]
IsThrow(x) == x.t = "throw"

(***************************************************************************)
(* formatRevenue.  The amount is a non-negative integer number of cents;   *)
(* any other truthy amount is taken as not numeric.  cents / 100 and the   *)
(* further division are IEEE doubles: toFixed(1) rounds the exact value of *)
(* the double to the nearest tenth, so an amount halfway between two       *)
(* tenths goes where the rounding of the division has put the double.      *)
(* toLocaleString() prints at most three fraction digits without trailing  *)
(* zeros (en-US).                                                          *)
(***************************************************************************)
RECURSIVE Log2Floor(_)
Log2Floor(n) == IF n < 2 THEN 0 ELSE 1 + Log2Floor(n \div 2)

\* 2^j modulo 5
Pow2Mod5(j) ==
    CASE j % 4 = 0 -> 1 [] j % 4 = 1 -> 2 [] j % 4 = 2 -> 4 [] j % 4 = 3 -> 3

\* whether the double nearest to odd / 20, a value in [2^k, 2^(k+1)), is
\* at or above odd / 20: the 53-bit significand is odd * 2^(50-k) / 5
\* rounded to an integer
HalfwayRoundsUp(odd, k) ==
    (odd * Pow2Mod5(50 - k)) % 5 \in {0, 3, 4}

\* (c / unit).toFixed(1) for c >= unit and a unit that is a multiple of 20
ToFixed1(c, unit) ==
    LET step == unit \div 10
        half == unit \div 20
        down == c \div step
        rest == c % step
        tenths ==
            IF rest > half THEN down + 1
            ELSE IF rest < half THEN down
            ELSE IF HalfwayRoundsUp(c \div half, Log2Floor(c \div unit))
                 THEN down + 1
            ELSE down
    IN  NumberToString(tenths \div 10) \o <<".">> \o <<Digit(tenths % 10)>>

\* (c / 100).toLocaleString() for c / 100 < 1000
DollarsToLocaleString(c) ==
    LET whole == NumberToString(c \div 100)
        frac == c % 100
    IN  IF frac = 0 THEN whole
        ELSE IF frac % 10 = 0 THEN whole \o <<".", Digit(frac \div 10)>>
        ELSE whole \o <<".", Digit(frac \div 10), Digit(frac % 10)>>

\* tiers whose thresholds are compared with the cents
formatRevenueCentsThresholds(cents) ==
    IF ~Truthy(cents) THEN <<"$", "0">>
    ELSE IF cents.t # "num" THEN <<"$", "N", "a", "N">>
    ELSE IF cents.v >= 1000000
         THEN <<"$">> \o ToFixed1(cents.v, 100000000) \o <<"M">>
    ELSE IF cents.v >= 1000
         THEN <<"$">> \o ToFixed1(cents.v, 100000) \o <<"K">>
    ELSE <<"$">> \o DollarsToLocaleString(cents.v)

formatRevenue(cents) ==
    IF ~Truthy(cents) THEN <<"$", "0">>
    ELSE IF cents.t # "num" THEN <<"$", "N", "a", "N">>
    ELSE IF cents.v >= 100000000
         THEN <<"$">> \o ToFixed1(cents.v, 100000000) \o <<"M">>
    ELSE IF cents.v >= 100000
         THEN <<"$">> \o ToFixed1(cents.v, 100000) \o <<"K">>
    ELSE <<"$">> \o DollarsToLocaleString(cents.v)

(***************************************************************************)
(* extractCategoryRankings                                                 *)
(***************************************************************************)
PrimaryCategory(deviceRankings, chart) ==
    Or(OptFirst(OptProp(OptProp(deviceRankings, chart), "primary_categories")),
       Null)

\* a resolution that reads the iphone bucket on every platform
extractCategoryRankingsIphoneOnly(rankings, platform) ==
    IF ~Truthy(rankings) THEN EmptyObj
    ELSE LET deviceRankings == Or(Prop(rankings, "iphone"), rankings)
         IN  Obj([top_free |-> PrimaryCategory(deviceRankings, "top_free"),
                  top_grossing |-> PrimaryCategory(deviceRankings, "top_grossing"),
                  top_paid |-> PrimaryCategory(deviceRankings, "top_paid")])

extractCategoryRankings(rankings, platform) ==
    IF ~Truthy(rankings) THEN EmptyObj
    ELSE LET deviceType == IF platform = "ios" THEN "iphone" ELSE "phone"
             deviceRankings == Or(Prop(rankings, deviceType), rankings)
         IN  Obj([top_free |-> PrimaryCategory(deviceRankings, "top_free"),
                  top_grossing |-> PrimaryCategory(deviceRankings, "top_grossing"),
                  top_paid |-> PrimaryCategory(deviceRankings, "top_paid")])

(***************************************************************************)
(* extractTopIAPPrices                                                     *)
(***************************************************************************)
\* SameValueZero of two values: objects and arrays are equal only to themselves
SameValueZero(a, b) == a = b /\ a.t \notin {"obj", "list"}

\* [...new Set(prices)]
RECURSIVE Dedupe(_)
Dedupe(s) ==
    IF s = <<>> THEN <<>>
    ELSE LET init == Dedupe(SubSeq(s, 1, Len(s) - 1))
             last == s[Len(s)]
         IN  IF \E k \in 1..(Len(s) - 1) : SameValueZero(s[k], last)
             THEN init
             ELSE Append(init, last)

\* an extraction that removes the duplicates before it takes three
extractTopIAPPricesDistinctFirst(iapData) ==
    IF ~Truthy(iapData) THEN List(<<>>)
    ELSE LET us == Prop(iapData, "US")
         IN  IF ~Truthy(us) THEN List(<<>>)
             ELSE IF us.t # "list" THEN List(<<>>)
             ELSE IF \E k \in 1..Len(us.v) : Nullish(us.v[k])
                  THEN List(<<>>)
             ELSE List(Slice3(Dedupe([k \in 1..Len(us.v) |->
                                         Prop(us.v[k], "price")])))

extractTopIAPPrices(iapData) ==
    IF ~Truthy(iapData) THEN List(<<>>)
    ELSE LET us == Prop(iapData, "US")
         IN  IF ~Truthy(us) THEN List(<<>>)
             ELSE IF us.t # "list" THEN List(<<>>)
             ELSE LET top == Slice3(us.v)
                  IN  IF \E k \in 1..Len(top) : Nullish(top[k])
                      THEN List(<<>>)
                      ELSE List(Dedupe([k \in 1..Len(top) |-> Prop(top[k], "price")]))

(***************************************************************************)
(* extractEssentialRevenueData                                             *)
(***************************************************************************)
\* rawData.top_countries?.slice(0, 3) || []
TopCountries(rawData) ==
    LET tc == Prop(rawData, "top_countries")
    IN  CASE Nullish(tc) -> List(<<>>)
          [] tc.t = "list" -> List(Slice3(tc.v))
          [] tc.t = "str" -> Or(Str(Slice3(tc.v)), List(<<>>))
          [] OTHER -> Throw(TextTopCountriesNotAFunction)

\* rawData.related_apps?.length || 0
RelatedAppsCount(rawData) ==
    LET ra == Prop(rawData, "related_apps")
    IN  CASE Nullish(ra) -> Num(0)
          [] ra.t \in {"list", "str"} -> Num(Len(ra.v))
          [] OTHER -> Or(Prop(ra, "length"), Num(0))

Competitor(app) ==
    Obj([name |-> Or(Prop(app, "name"), Prop(app, "title")),
         rating |-> Or(Prop(app, "rating"), Prop(app, "score")),
         price |-> Or(Or(OptProp(Prop(app, "price"), "string_value"),
                         Prop(app, "priceText")),
                      Str(<<"F", "r", "e", "e">>))])

\* a mapping that is made only for a list, and only of its objects
TopCompetitorsGuarded(rawData) ==
    LET ra == Prop(rawData, "related_apps")
    IN  IF ra.t # "list" THEN List(<<>>)
        ELSE LET top == SelectSeq(Slice3(ra.v), LAMBDA app : ~Nullish(app))
             IN  List([k \in 1..Len(top) |-> Competitor(top[k])])

\* rawData.related_apps?.slice(0, 3)?.map(...) || []
TopCompetitors(rawData) ==
    LET ra == Prop(rawData, "related_apps")
    IN  CASE Nullish(ra) -> List(<<>>)
          [] ra.t = "list" ->
               LET top == Slice3(ra.v)
               IN  IF \E k \in 1..Len(top) : Nullish(top[k])
                   THEN Throw(TextNullCompetitor)
                   ELSE List([k \in 1..Len(top) |-> Competitor(top[k])])
          [] ra.t = "str" -> Throw(TextMapNotAFunction)
          [] OTHER -> Throw(TextNotAFunction)

\* a catch block that throws the error on
DegradedRethrows(error, rawData) == error

Degraded(error, rawData) ==
    Obj([error |-> Str(ExtractPrefix \o error.msg),
         raw_data_available |-> Bool(Truthy(rawData))])

extractEssentialRevenueData(rawData, platform, identifier) ==
    IF ~Truthy(rawData) THEN Null
    ELSE
    LET revenue == Prop(rawData, "worldwide_last_month_revenue")
        downloads == Prop(rawData, "worldwide_last_month_downloads")
        topCountries == TopCountries(rawData)
        topCompetitors == TopCompetitors(rawData)
    IN  IF IsThrow(topCountries) THEN Degraded(topCountries, rawData)
        ELSE IF IsThrow(topCompetitors) THEN Degraded(topCompetitors, rawData)
        ELSE Obj([
          app_info |-> Obj([
            id |-> IF platform = "ios" THEN Prop(rawData, "app_id")
                   ELSE Or(Prop(rawData, "package_name"), identifier),
            name |-> Or(Prop(rawData, "name"), Prop(rawData, "title")),
            publisher |-> Or(Prop(rawData, "publisher_name"),
                             Prop(rawData, "developer")),
            platform |-> Str(IF platform = "ios" THEN <<"i", "o", "s">>
                             ELSE <<"a", "n", "d", "r", "o", "i", "d">>),
            category |-> Or(OptProp(OptFirst(Prop(rawData, "categories")), "name"),
                            Str(<<"U", "n", "k", "n", "o", "w", "n">>)),
            content_rating |-> Prop(rawData, "content_rating"),
            current_version |-> Prop(rawData, "current_version")]),
          revenue_metrics |-> Obj([
            last_month_revenue |-> Or(OptProp(revenue, "value"), Num(0)),
            last_month_downloads |-> Or(OptProp(downloads, "value"), Num(0)),
            revenue_currency |-> Or(OptProp(revenue, "currency"),
                                    Str(<<"U", "S", "D">>)),
            revenue_formatted |->
                Str(formatRevenue(Or(OptProp(revenue, "value"), Num(0))))]),
          market_position |-> Obj([
            overall_rating |-> Or(Prop(rawData, "rating"), Prop(rawData, "score")),
            rating_count |-> Or(Prop(rawData, "rating_count"),
                                Prop(rawData, "reviews")),
            top_countries |-> topCountries,
            category_rankings |->
                extractCategoryRankings(Prop(rawData, "category_rankings"),
                                        platform)]),
          monetization |-> Obj([
            price |-> Or(Or(OptProp(Prop(rawData, "price"), "string_value"),
                            Prop(rawData, "priceText")),
                         Str(<<"F", "r", "e", "e">>)),
            has_in_app_purchases |->
                Or(Or(Prop(rawData, "has_in_app_purchases"),
                      Prop(rawData, "offersIAP")),
                   Bool(FALSE)),
            top_iap_prices |->
                extractTopIAPPrices(Prop(rawData, "top_in_app_purchases"))]),
          competitive_analysis |-> Obj([
            related_apps_count |-> RelatedAppsCount(rawData),
            top_competitors |-> topCompetitors])])

(***************************************************************************)
(* Inputs of the tools and answers of the upstream.                        *)
(***************************************************************************)
US == Str(<<"U", "S">>)
TR == Str(<<"T", "R">>)

RECURSIVE SeqsUpTo(_, _)
SeqsUpTo(S, n) ==
    IF n = 0 THEN {<<>>}
    ELSE LET shorter == SeqsUpTo(S, n - 1)
         IN  shorter \cup {Append(q, x) : q \in shorter, x \in S}

\* The identifiers a universe of inputs holds for a platform
Identifiers(u, platform) ==
    IF platform = "ios" THEN u.appIds ELSE u.packageNames

\* z.union([scalar, z.array(scalar)])
Arguments(u, platform) ==
    Identifiers(u, platform)
        \cup {List(q) : q \in SeqsUpTo(Identifiers(u, platform), u.maxIds)}

\* an in-app purchase with a price
Iap(price) == Obj([name |-> Str(<<"I">>), price |-> price])

Price(k) == Str(<<"$">> \o NumberToString(k))

PayloadA ==
    Obj([app_id |-> Num(1),
         name |-> Str(<<"A">>),
         worldwide_last_month_revenue |-> Obj([value |-> Num(2500000)]),
         top_in_app_purchases |->
             Obj([US |-> List(<<Iap(Price(1)), Iap(Price(2))>>),
                  TR |-> List(<<Iap(Price(9))>>)]),
         related_apps |-> List(<<Obj([name |-> Str(<<"B">>)])>>)])
PayloadB ==
    Obj([title |-> Str(<<"B">>),
         related_apps |-> Obj([count |-> Num(1)])])

\* A response body: a JSON document for a value, or a text that is no JSON
JsonBody(value) == [json |-> TRUE, value |-> value]
TextBody == [json |-> FALSE, value |-> Undefined]
Bodies(u) == {JsonBody(p) : p \in u.payloads} \cup {TextBody}

Response(status, statusText) ==
    [rejected |-> FALSE, status |-> status, statusText |-> statusText,
     message |-> <<>>]
NetworkError(message) ==
    [rejected |-> TRUE, status |-> 0, statusText |-> <<>>, message |-> message]

AllFetchResults ==
    {Response(200, TextOK),
     Response(429, TextTooManyRequests),
     Response(500, TextInternalServerError),
     Response(503, TextRateLimitReached),
     NetworkError(TextFetchFailed)}

\* Response.ok
Ok(response) == response.status \in 200..299

(***************************************************************************)
(* callSensorTowerAPI: keys, endpoints and errors.                         *)
(***************************************************************************)
\* `${x}` for a number or a string
TemplateString(x) == IF x.t = "num" THEN NumberToString(x.v) ELSE x.v

Endpoint(platform, identifier) ==
    IF platform = "ios" THEN IosEndpointBase \o TemplateString(identifier)
    ELSE AndroidEndpointBase \o TemplateString(identifier)

\* the key base of the iOS handler used by both handlers
CacheKeySharedPrefix(platform, identifier) ==
    IosKeyPrefix \o TemplateString(identifier)

CacheKey(platform, identifier) ==
    IF platform = "ios" THEN IosKeyPrefix \o TemplateString(identifier)
    ELSE AndroidKeyPrefix \o TemplateString(identifier)

\* a final key that leaves the region out
FinalCacheKeyNoRegion(cacheKey, country) == cacheKey

FinalCacheKey(cacheKey, country) ==
    IF Truthy(country) THEN cacheKey \o <<"_">> \o country.v ELSE cacheKey

\* an endpoint that leaves the region out
FinalEndpointNoRegion(endpoint, country) == endpoint

FinalEndpoint(endpoint, country) ==
    IF Truthy(country) THEN endpoint \o CountryQuery \o country.v ELSE endpoint

\* sensorTowerCache.get(key)
CacheGet(c, key) == IF key \in DOMAIN c THEN c[key] ELSE Undefined

\* a set that keeps the entry a key already has
CacheSetIfAbsent(c, key, data, timestamp) ==
    [k \in DOMAIN c \cup {key} |->
        IF k \in DOMAIN c THEN c[k]
        ELSE Obj([data |-> data, timestamp |-> Num(timestamp)])]

\* a set that starts a new map
CacheSetAlone(c, key, data, timestamp) ==
    [k \in {key} |-> Obj([data |-> data, timestamp |-> Num(timestamp)])]

\* sensorTowerCache.set(key, { data, timestamp })
CacheSet(c, key, data, timestamp) ==
    [k \in DOMAIN c \cup {key} |->
        IF k = key THEN Obj([data |-> data, timestamp |-> Num(timestamp)])
        ELSE c[k]]

\* an entry that goes stale one second early
CacheValidShortTTL(cached, t) ==
    /\ Truthy(cached)
    /\ t - cached.v.timestamp.v < CACHE_DURATION - 1

\* an entry that is still served at the instant it expires
CacheValidInclusive(cached, t) ==
    /\ Truthy(cached)
    /\ t - cached.v.timestamp.v <= CACHE_DURATION

\* cached && Date.now() - cached.timestamp < CACHE_DURATION
CacheValid(cached, t) ==
    /\ Truthy(cached)
    /\ t - cached.v.timestamp.v < CACHE_DURATION

\* a store of whatever response.json() gave, parsed or not
CacheAfterJsonAlways(c, key, body, t) == CacheSet(c, key, body.value, t)

\* the cache after response.json() has settled: the data is stored only
\* when the body was parsed
CacheAfterJson(c, key, body, t) ==
    IF body.json THEN CacheSet(c, key, body.value, t) ELSE c

\* a catch block that wraps every error
CatchFetchErrorAlwaysWraps(message) == Throw(WrapPrefix \o message)

\* the catch block of callSensorTowerAPI
CatchFetchError(message) ==
    IF Includes(message, RateLimitMarker) THEN Throw(message)
    ELSE Throw(WrapPrefix \o message)

\* what the try block throws for a settled fetch, if anything
ResponseError(result) ==
    IF result.rejected THEN result.message
    ELSE IF result.status = 429 THEN RateLimitMessage
    ELSE HttpPrefix \o NumberToString(result.status) \o <<":", " ">>
             \o result.statusText

Return(value) == [t |-> "return", value |-> value]

(***************************************************************************)
(* State.                                                                  *)
(*   now      Date.now()                                                   *)
(*   ticks    how often the clock has advanced                             *)
(*   started  how many tool invocations have been started                  *)
(*   cache    sensorTowerCache: final cache key -> { data, timestamp }     *)
(*   writer   for every cached key, the request whose fetch stored it      *)
(*   inv      the tool invocations in progress, one per slot: arguments,   *)
(*            loop position, results so far, the pending call and, in      *)
(*            call, what that call saw and did at its cache lookup and     *)
(*            the cache as it was then                                     *)
(*   twin     a second run of a handler with a cache of its own, fed the   *)
(*            same upstream answers as the run in slot "A"                 *)
(*   pure     one application of a function of the module: the function,   *)
(*            its arguments and, once applied, its value                   *)
(***************************************************************************)
VARIABLES now, ticks, started, cache, writer, inv, twin, pure

vars == <<now, ticks, started, cache, writer, inv, twin, pure>>

Pending == [t |-> "pending"]

NoCall == [at |-> 0, seen |-> Undefined, requests |-> 0, before |-> <<>>]

NoResponse == Response(0, <<>>)

IdleInvocation ==
    [pc |-> "idle", platform |-> "ios", includeCompetitors |-> TRUE,
     country |-> Undefined, ids |-> <<>>, i |-> 0, results |-> <<>>,
     key |-> <<>>, url |-> <<>>, response |-> NoResponse,
     outcome |-> Pending, ret |-> Undefined, call |-> NoCall]

NoTwin == [cache |-> <<>>, inv |-> IdleInvocation]

NoApplication ==
    [op |-> "none", arg |-> Undefined, platform |-> "ios",
     identifier |-> Undefined, includeCompetitors |-> TRUE,
     out |-> Undefined, applied |-> FALSE]

Init ==
    /\ now = 0
    /\ ticks = 0
    /\ started = 0
    /\ cache = <<>>
    /\ writer = <<>>
    /\ inv = [v \in Slots |-> IdleInvocation]
    /\ twin = NoTwin
    /\ pure = NoApplication

\* JSON.stringify: the document that the text denotes
RECURSIVE JsonStringify(_)
JsonStringify(x) ==
    CASE x.t = "obj" ->
           LET kept == {k \in DOMAIN x.v : x.v[k].t # "undefined"}
           IN  Obj([k \in kept |-> JsonStringify(x.v[k])])
      [] x.t = "list" ->
           List([k \in 1..Len(x.v) |->
                    IF x.v[k].t = "undefined" THEN Null
                    ELSE JsonStringify(x.v[k])])
      [] OTHER -> x

IdentifierField(platform) ==
    IF platform = "ios" THEN "app_id" ELSE "package_name"

\* results.push({ app_id, success: true, data })
SuccessEntry(platform, identifier, data) ==
    IF platform = "ios"
    THEN Obj([app_id |-> identifier, success |-> Bool(TRUE), data |-> data])
    ELSE Obj([package_name |-> identifier, success |-> Bool(TRUE),
              data |-> data])

\* results.push({ app_id, success: false, error })
FailureEntry(platform, identifier, message) ==
    IF platform = "ios"
    THEN Obj([app_id |-> identifier, success |-> Bool(FALSE),
              error |-> Str(message)])
    ELSE Obj([package_name |-> identifier, success |-> Bool(FALSE),
              error |-> Str(message)])

\* a delete that leaves the record as it is
DeleteNothing(essentialData) == essentialData

\* delete essentialData.competitive_analysis
DeleteCompetitiveAnalysis(essentialData) ==
    Obj([k \in DOMAIN essentialData.v \ {"competitive_analysis"} |->
            essentialData.v[k]])

\* the body of the inner try of a handler after the call has returned
\* rawData, and its catch
ProcessPayload(platform, identifier, includeCompetitors, rawData) ==
    LET essentialData ==
            extractEssentialRevenueData(rawData, platform, identifier)
    IN  IF includeCompetitors
        THEN SuccessEntry(platform, identifier, essentialData)
        ELSE IF essentialData.t = "null"
        THEN FailureEntry(platform, identifier, TextNullEssential)
        ELSE IF Truthy(Prop(essentialData, "competitive_analysis"))
        THEN SuccessEntry(platform, identifier,
                          DeleteCompetitiveAnalysis(essentialData))
        ELSE SuccessEntry(platform, identifier, essentialData)

\* an entry whose in-app purchase prices are those of the bucket of the
\* region of the request, where the payload has one
ResultEntryRegional(s) ==
    IF s.outcome.t = "return"
    THEN LET rawData == s.outcome.value
             iapData == Prop(rawData, "top_in_app_purchases")
             regional ==
                 IF /\ Truthy(s.country)
                    /\ s.country = TR
                    /\ Truthy(Prop(iapData, "TR"))
                 THEN Obj([k \in DOMAIN rawData.v |->
                             IF k = "top_in_app_purchases"
                             THEN Obj([US |-> iapData.v.TR])
                             ELSE rawData.v[k]])
                 ELSE rawData
         IN  ProcessPayload(s.platform, s.ids[s.i], s.includeCompetitors,
                            regional)
    ELSE FailureEntry(s.platform, s.ids[s.i], s.outcome.msg)

\* the entry pushed for a settled call
ResultEntry(s) ==
    IF s.outcome.t = "return"
    THEN ProcessPayload(s.platform, s.ids[s.i], s.includeCompetitors,
                        s.outcome.value)
    ELSE FailureEntry(s.platform, s.ids[s.i], s.outcome.msg)

\* a count that takes every entry, whatever its success flag
CountWhereAny(results, flag) == Len(results)

CountWhere(results, flag) ==
    Cardinality({k \in 1..Len(results) : results[k].v.success = Bool(flag)})

Summary(s) ==
    Obj([total_apps |-> Num(Len(s.ids)),
         successful |-> Num(CountWhere(s.results, TRUE)),
         failed |-> Num(CountWhere(s.results, FALSE)),
         apps |-> List(s.results)])

\* a result whose text block holds the summary object itself
ToolResultUnserialized(s) ==
    Obj([content |-> List(<<
        Obj([type |-> Str(<<"t", "e", "x", "t">>), text |-> Summary(s)])>>)])

\* return { content: [{ type: "text", text: JSON.stringify(summary) }] }
ToolResult(s) ==
    Obj([content |-> List(<<
        Obj([type |-> Str(<<"t", "e", "x", "t">>),
             text |-> [t |-> "json", v |-> JsonStringify(Summary(s))]])>>)])

\* the promise of the call settles
Settle(s, outcome) == [s EXCEPT !.pc = "settled", !.outcome = outcome]

\* callSensorTowerAPI up to its first await, for the identifier at s.i
StartCall(s, c, t) ==
    LET identifier == s.ids[s.i]
        key == FinalCacheKey(CacheKey(s.platform, identifier), s.country)
        url == FinalEndpoint(Endpoint(s.platform, identifier), s.country)
        cached == CacheGet(c, key)
        hit == CacheValid(cached, t)
        call == [at |-> t, seen |-> cached,
                 requests |-> IF hit THEN 0 ELSE 1, before |-> c]
        s1 == [s EXCEPT !.key = key, !.call = call, !.response = NoResponse,
                        !.url = IF hit THEN <<>> ELSE url]
    IN  IF hit THEN Settle(s1, Return(cached.v.data))
        ELSE [s1 EXCEPT !.pc = "fetching", !.outcome = Pending]

\* a loop that gives up the rest of the batch after a rate-limit failure
LoopBacksOff(s, c, t) ==
    IF /\ s.i <= Len(s.ids)
       /\ ~(/\ s.results # <<>>
            /\ Prop(s.results[Len(s.results)], "error") = Str(RateLimitMessage))
    THEN StartCall(s, c, t)
    ELSE [s EXCEPT !.pc = "done", !.ret = ToolResult(s), !.key = <<>>,
                   !.url = <<>>, !.outcome = Pending, !.call = NoCall,
                   !.response = NoResponse]

\* the head of the for loop: the next identifier, or the summary
Loop(s, c, t) ==
    IF s.i <= Len(s.ids) THEN StartCall(s, c, t)
    ELSE [s EXCEPT !.pc = "done", !.ret = ToolResult(s), !.key = <<>>,
                   !.url = <<>>, !.outcome = Pending, !.call = NoCall,
                   !.response = NoResponse]

\* a normalisation that takes only lists
NormalizeIdsDropsScalar(argument) ==
    IF argument.t = "list" THEN argument.v ELSE <<>>

\* Array.isArray(appIds) ? appIds : [appIds]
NormalizeIds(argument) ==
    IF argument.t = "list" THEN argument.v ELSE <<argument>>

\* a handler entered with its arguments, before its loop
Entered(platform, argument, includeCompetitors, country) ==
    [IdleInvocation EXCEPT !.platform = platform,
         !.ids = NormalizeIds(argument),
         !.includeCompetitors = includeCompetitors,
         !.country = country, !.i = 1]

\* a call that issues its request again whenever the request fails
AfterFetchRetries(s, result) ==
    LET s1 == [s EXCEPT !.response = result]
    IN  IF ~result.rejected /\ Ok(result)
        THEN [s1 EXCEPT !.pc = "parsing"]
        ELSE s1

\* the call after its fetch has settled with a response or a network error
AfterFetch(s, result) ==
    LET s1 == [s EXCEPT !.response = result]
    IN  IF ~result.rejected /\ Ok(result)
        THEN [s1 EXCEPT !.pc = "parsing"]
        ELSE Settle(s1, CatchFetchError(ResponseError(result)))

\* the call after response.json() has settled
AfterJson(s, body) ==
    IF body.json THEN Settle(s, Return(body.value))
    ELSE Settle(s, CatchFetchError(TextUnexpectedToken))

\* a loop body that goes on to the next identifier without its entry
AfterAwaitNoPush(s) == [s EXCEPT !.i = s.i + 1]

\* the handler after its await, at the end of the loop body
AfterAwait(s) ==
    [s EXCEPT !.results = Append(s.results, ResultEntry(s)), !.i = s.i + 1]

\* a loop body that trims the payload itself when competitors are not asked
\* for
PayloadAfterProcessInPlace(platform, identifier, includeCompetitors, rawData) ==
    IF ~includeCompetitors /\ rawData.t = "obj"
    THEN Obj([k \in DOMAIN rawData.v \ {"related_apps"} |-> rawData.v[k]])
    ELSE rawData

\* the payload after the loop body has worked on it: the record is built
\* as a new object and the delete acts on that record, the payload is only
\* read
PayloadAfterProcess(platform, identifier, includeCompetitors, rawData) ==
    rawData

\* the cache after the loop body: the payload a call returned is the
\* object that the entry of its key holds
CacheAfterProcess(s, c) ==
    IF /\ s.outcome.t = "return"
       /\ s.key \in DOMAIN c
       /\ c[s.key].v.data = s.outcome.value
    THEN [k \in DOMAIN c |->
            IF k = s.key
            THEN Obj([data |-> PayloadAfterProcess(s.platform, s.ids[s.i],
                                   s.includeCompetitors, s.outcome.value),
                      timestamp |-> c[k].v.timestamp])
            ELSE c[k]]
    ELSE c

\* a lookup that sets the timestamp of the entry it serves to the time of
\* the read
CacheAfterLookupSliding(c, key, t) ==
    IF CacheValid(CacheGet(c, key), t)
    THEN CacheSet(c, key, CacheGet(c, key).v.data, t)
    ELSE c

\* the cache after the lookup of a call: a hit returns the data of the
\* entry and a miss goes on to the fetch, neither sets anything
CacheAfterLookup(c, key, t) == c

\* the cache after the handler has run on to its next await or to its end
CacheAfterLoop(s, c, t) ==
    IF s.i <= Len(s.ids)
    THEN CacheAfterLookup(
             c, FinalCacheKey(CacheKey(s.platform, s.ids[s.i]), s.country), t)
    ELSE c

\* the request a pending call was made for
Request(s) ==
    [platform |-> s.platform, identifier |-> s.ids[s.i], country |-> s.country]

(***************************************************************************)
(* Actions.                                                                *)
(***************************************************************************)
\* A tool is invoked: the handler runs up to its first await.
Invoke(v, platform, argument, includeCompetitors, country, limit) ==
    /\ inv[v].pc = "idle"
    /\ started < limit
    /\ started' = started + 1
    /\ inv' = [inv EXCEPT ![v] =
                 Loop(Entered(platform, argument, includeCompetitors, country),
                      cache, now)]
    /\ cache' = CacheAfterLoop(
                    Entered(platform, argument, includeCompetitors, country),
                    cache, now)
    /\ UNCHANGED <<now, ticks, writer, twin, pure>>

\* The fetch of a pending call settles with a response or a network error.
FetchSettles(v, result) ==
    /\ inv[v].pc = "fetching"
    /\ inv' = [inv EXCEPT ![v] = AfterFetch(inv[v], result)]
    /\ UNCHANGED <<now, ticks, started, cache, writer, twin, pure>>

\* response.json() settles: the data is cached and returned, or the
\* SyntaxError is caught.
JsonSettles(v, body) ==
    /\ inv[v].pc = "parsing"
    /\ cache' = CacheAfterJson(cache, inv[v].key, body, now)
    /\ writer' = IF body.json
                 THEN [k \in DOMAIN writer \cup {inv[v].key} |->
                          IF k = inv[v].key THEN Request(inv[v])
                          ELSE writer[k]]
                 ELSE writer
    /\ inv' = [inv EXCEPT ![v] = AfterJson(inv[v], body)]
    /\ UNCHANGED <<now, ticks, started, twin, pure>>

\* The handler resumes after its await: it pushes the entry of the
\* identifier and goes on with the loop.
Resume(v) ==
    /\ inv[v].pc = "settled"
    /\ \E processed \in {CacheAfterProcess(inv[v], cache)},
          s \in {AfterAwait(inv[v])} :
          /\ inv' = [inv EXCEPT ![v] = Loop(s, processed, now)]
          /\ cache' = CacheAfterLoop(s, processed, now)
    /\ UNCHANGED <<now, ticks, started, writer, twin, pure>>

\* The result of a finished invocation has been delivered.
Deliver(v) ==
    /\ inv[v].pc = "done"
    /\ inv' = [inv EXCEPT ![v] = IdleInvocation]
    /\ UNCHANGED <<now, ticks, started, cache, writer, twin, pure>>

\* Time passes.
Tick(d) ==
    /\ ticks < MaxTicks
    /\ ticks' = ticks + 1
    /\ now' = now + d
    /\ UNCHANGED <<started, cache, writer, inv, twin, pure>>

\* Steps of the clock that reach both sides of the expiry
TickSteps == {1, CACHE_DURATION - 1}

\* The steps over a universe of inputs: the slots, the tool arguments and
\* the payloads the upstream may answer with
NextOver(u) ==
    \/ \E v \in u.slots, platform \in u.platforms, include \in u.includes,
          country \in u.countries :
          \E argument \in Arguments(u, platform) :
              Invoke(v, platform, argument, include, country, u.invocations)
    \/ \E v \in u.slots, result \in u.fetchResults : FetchSettles(v, result)
    \/ \E v \in u.slots, body \in Bodies(u) : JsonSettles(v, body)
    \/ \E v \in u.slots : Resume(v)
    \/ \E v \in u.slots : Deliver(v)
    \/ \E d \in u.tickSteps : Tick(d)

\* One invocation at a time, of either tool, for lists of identifiers
BatchUniverse ==
    [slots |-> {"A"}, platforms |-> {"ios", "android"},
     appIds |-> {Num(1), Num(2)}, packageNames |-> {Str(<<"1">>)},
     countries |-> {Undefined}, includes |-> BOOLEAN, maxIds |-> MaxIds,
     invocations |-> 1, tickSteps |-> {CACHE_DURATION},
     payloads |-> {Null, PayloadA, PayloadB},
     fetchResults |-> AllFetchResults]

Next == NextOver(BatchUniverse)

Spec == Init /\ [][Next]_vars

\* Overlapping invocations of the iOS tool for one app
RaceUniverse ==
    [slots |-> Slots, platforms |-> {"ios"},
     appIds |-> {Num(1)}, packageNames |-> {},
     countries |-> {Undefined}, includes |-> {TRUE}, maxIds |-> 1,
     invocations |-> MaxInvocations, tickSteps |-> TickSteps,
     payloads |-> {PayloadA, PayloadB},
     fetchResults |-> {Response(200, TextOK),
                       Response(500, TextInternalServerError)}]

NextRace == NextOver(RaceUniverse)

SpecRace == Init /\ [][NextRace]_vars

\* One invocation at a time, of either tool, for one identifier and a region
KeyUniverse ==
    [slots |-> {"A"}, platforms |-> {"ios", "android"},
     appIds |-> {Num(1)},
     packageNames |-> {Str(<<"1">>), Str(<<"1", "_", "U", "S">>)},
     countries |-> {Undefined, US, TR}, includes |-> {TRUE}, maxIds |-> 1,
     invocations |-> MaxInvocations, tickSteps |-> {CACHE_DURATION},
     payloads |-> {PayloadA},
     fetchResults |-> {Response(200, TextOK),
                       Response(429, TextTooManyRequests)}]

NextKeys == NextOver(KeyUniverse)

SpecKeys == Init /\ [][NextKeys]_vars

\* An invocation of the iOS tool for a list of identifiers of one app beside
\* an invocation for that app alone, with requests that succeed, are rate
\* limited or fail in the network
LiveUniverse ==
    [slots |-> Slots, platforms |-> {"ios"},
     appIds |-> {Num(1)}, packageNames |-> {},
     countries |-> {Undefined}, includes |-> {TRUE}, maxIds |-> 2,
     invocations |-> 2, tickSteps |-> {CACHE_DURATION},
     payloads |-> {PayloadB},
     fetchResults |-> {Response(200, TextOK),
                       Response(429, TextTooManyRequests),
                       NetworkError(TextFetchFailed)}]

NextLive ==
    \/ \E argument \in Arguments(LiveUniverse, "ios") :
          Invoke("A", "ios", argument, TRUE, Undefined,
                 LiveUniverse.invocations)
    \/ Invoke("B", "ios", Num(1), TRUE, Undefined, LiveUniverse.invocations)
    \/ \E v \in Slots, result \in LiveUniverse.fetchResults :
          FetchSettles(v, result)
    \/ \E v \in Slots, body \in Bodies(LiveUniverse) : JsonSettles(v, body)
    \/ \E v \in Slots : Resume(v)
    \/ \E v \in Slots : Deliver(v)
    \/ \E d \in LiveUniverse.tickSteps : Tick(d)

\* Every outbound request of an invocation completes: its fetch settles and
\* the body of its response is read to the end.
RequestsComplete(v) ==
    /\ WF_vars(\E result \in LiveUniverse.fetchResults :
                  FetchSettles(v, result))
    /\ WF_vars(\E body \in Bodies(LiveUniverse) : JsonSettles(v, body))

\* The event loop runs the continuation of a handler whose awaited promise
\* has settled.
HandlerResumes(v) == WF_vars(Resume(v))

SpecLive ==
    /\ Init
    /\ [][NextLive]_vars
    /\ \A v \in Slots : RequestsComplete(v) /\ HandlerResumes(v)

(***************************************************************************)
(* Two runs side by side: the handler in slot "A" is given a scalar        *)
(* identifier and works on cache; the twin is given the one-element list   *)
(* of that identifier and works on twin.cache.  Both see the same clock    *)
(* and the same upstream answers, and the twin steps whenever it is at     *)
(* the await the run in slot "A" is at.                                    *)
(***************************************************************************)
PairInvoke(platform, identifier, includeCompetitors, country, limit) ==
    /\ inv["A"].pc = "idle"
    /\ started < limit
    /\ started' = started + 1
    /\ inv' = [inv EXCEPT !["A"] =
                 Loop(Entered(platform, identifier, includeCompetitors,
                              country), cache, now)]
    /\ cache' = CacheAfterLoop(
                    Entered(platform, identifier, includeCompetitors, country),
                    cache, now)
    /\ twin' = [cache |-> CacheAfterLoop(
                              Entered(platform, List(<<identifier>>),
                                      includeCompetitors, country),
                              twin.cache, now),
                inv |-> Loop(Entered(platform, List(<<identifier>>),
                                     includeCompetitors, country),
                             twin.cache, now)]
    /\ UNCHANGED <<now, ticks, writer, pure>>

PairFetchSettles(result) ==
    /\ inv["A"].pc = "fetching"
    /\ inv' = [inv EXCEPT !["A"] = AfterFetch(inv["A"], result)]
    /\ twin' = IF twin.inv.pc = "fetching"
               THEN [twin EXCEPT !.inv = AfterFetch(twin.inv, result)]
               ELSE twin
    /\ UNCHANGED <<now, ticks, started, cache, writer, pure>>

PairJsonSettles(body) ==
    /\ inv["A"].pc = "parsing"
    /\ cache' = CacheAfterJson(cache, inv["A"].key, body, now)
    /\ inv' = [inv EXCEPT !["A"] = AfterJson(inv["A"], body)]
    /\ twin' = IF twin.inv.pc = "parsing"
               THEN [cache |-> CacheAfterJson(twin.cache, twin.inv.key, body,
                                              now),
                     inv |-> AfterJson(twin.inv, body)]
               ELSE twin
    /\ UNCHANGED <<now, ticks, started, writer, pure>>

PairResume ==
    /\ inv["A"].pc = "settled"
    /\ LET processed == CacheAfterProcess(inv["A"], cache)
       IN  /\ inv' = [inv EXCEPT !["A"] =
                        Loop(AfterAwait(inv["A"]), processed, now)]
           /\ cache' = CacheAfterLoop(AfterAwait(inv["A"]), processed, now)
    /\ twin' = IF twin.inv.pc = "settled"
               THEN LET processed == CacheAfterProcess(twin.inv, twin.cache)
                    IN  [cache |-> CacheAfterLoop(AfterAwait(twin.inv),
                                                  processed, now),
                         inv |-> Loop(AfterAwait(twin.inv), processed, now)]
               ELSE twin
    /\ UNCHANGED <<now, ticks, started, writer, pure>>

PairDeliver ==
    /\ inv["A"].pc = "done"
    /\ inv' = [inv EXCEPT !["A"] = IdleInvocation]
    /\ twin' = IF twin.inv.pc = "done"
               THEN [twin EXCEPT !.inv = IdleInvocation]
               ELSE twin
    /\ UNCHANGED <<now, ticks, started, cache, writer, pure>>

\* Invocations of either tool, one after another, each for one identifier
PairUniverse ==
    [slots |-> {"A"}, platforms |-> {"ios", "android"},
     appIds |-> {Num(1)}, packageNames |-> {Str(<<"1">>)},
     countries |-> {Undefined, US}, includes |-> BOOLEAN, maxIds |-> 1,
     invocations |-> 2, tickSteps |-> {CACHE_DURATION},
     payloads |-> {Null, PayloadA, PayloadB},
     fetchResults |-> AllFetchResults]

NextPair ==
    \/ \E platform \in PairUniverse.platforms,
          include \in PairUniverse.includes,
          country \in PairUniverse.countries :
          \E identifier \in Identifiers(PairUniverse, platform) :
              PairInvoke(platform, identifier, include, country,
                         PairUniverse.invocations)
    \/ \E result \in PairUniverse.fetchResults : PairFetchSettles(result)
    \/ \E body \in Bodies(PairUniverse) : PairJsonSettles(body)
    \/ PairResume
    \/ PairDeliver
    \/ \E d \in PairUniverse.tickSteps : Tick(d)

SpecPair == Init /\ [][NextPair]_vars

(***************************************************************************)
(* The functions of the module applied on their own: a state holds one     *)
(* application, first with its arguments only and then with its value.     *)
(***************************************************************************)
\* an entry of related_apps: the k-th app, under the field names of the
\* App Store when k is odd and under those of Google Play when k is even
RelatedApp(k) ==
    IF k % 2 = 1
    THEN Obj([name |-> Str(<<"P">> \o NumberToString(k)),
              rating |-> Num(k),
              price |-> Obj([string_value |-> Str(<<"$">> \o NumberToString(k))]),
              app_id |-> Num(k)])
    ELSE Obj([title |-> Str(<<"P">> \o NumberToString(k)),
              score |-> Num(k),
              priceText |-> Str(<<"$">> \o NumberToString(k))])

RelatedApps(n) == [k \in 1..n |-> RelatedApp(k)]

WithRelatedApps(relatedApps) ==
    Obj([app_id |-> Num(1), name |-> Str(<<"A">>),
         related_apps |-> relatedApps])

WithTopCountries(topCountries) ==
    Obj([app_id |-> Num(1), name |-> Str(<<"A">>),
         top_countries |-> topCountries,
         related_apps |-> List(RelatedApps(1))])

\* values of top_in_app_purchases
IapValues ==
    {Undefined, Null, EmptyObj, Num(3), Str(<<"U", "S">>),
     Obj([TR |-> List(<<Iap(Price(9))>>)]),
     Obj([US |-> Null]),
     Obj([US |-> Num(3)]),
     Obj([US |-> Obj([count |-> Num(1)])]),
     Obj([US |-> Str(<<"a", "b">>)]),
     Obj([US |-> List(<<Iap(Price(1)), Null>>)]),
     Obj([US |-> List(<<Iap(Price(1)), Iap(Price(1)), Iap(Price(2)), Null>>)]),
     Obj([US |-> List(<<Iap(Price(1)), Num(5), Obj([name |-> Str(<<"I">>)])>>)]),
     Obj([US |-> List(<<Iap(EmptyObj), Iap(EmptyObj), Iap(Num(1))>>)])}
    \cup {Obj([US |-> List(q), TR |-> List(<<Iap(Price(9))>>)]) :
            q \in SeqsUpTo({Iap(Price(1)), Iap(Price(2))}, MaxIaps)}

WithIaps(iapData) ==
    Obj([app_id |-> Num(1), name |-> Str(<<"A">>),
         top_in_app_purchases |-> iapData])

\* a payload under the field names of Google Play
PayloadPlay ==
    Obj([package_name |-> Str(<<"p">>), title |-> Str(<<"T">>),
         developer |-> Str(<<"D">>), score |-> Num(4), reviews |-> Num(7),
         priceText |-> Str(<<"$", "2">>), offersIAP |-> Bool(TRUE),
         categories |-> List(<<Obj([name |-> Str(<<"G">>)])>>),
         worldwide_last_month_revenue |->
             Obj([value |-> Num(150000000), currency |-> Str(<<"E", "U", "R">>)]),
         worldwide_last_month_downloads |-> Obj([value |-> Num(12)])])

\* rawData of extractEssentialRevenueData: absent and falsy values, values
\* that are no objects, and objects with well-formed and malformed fields
ExtractPayloads ==
    {Undefined, Null, Num(0), Str(<<>>), Bool(FALSE),
     EmptyObj, Num(5), Str(<<"x">>), Bool(TRUE), List(<<>>),
     PayloadA, PayloadB, PayloadPlay}
    \cup {WithRelatedApps(List(RelatedApps(n))) : n \in 0..MaxRelated}
    \cup {WithRelatedApps(r) :
            r \in {Null, Num(0), Num(7), Str(<<>>), Str(<<"a", "b">>),
                   Bool(TRUE), Obj([length |-> Num(2)]),
                   List(<<Null>>),
                   List(<<RelatedApp(1), Null, RelatedApp(3)>>),
                   List(RelatedApps(3) \o <<Null>>),
                   List(<<Num(5), Str(<<"s">>), EmptyObj>>)}}
    \cup {WithTopCountries(c) :
            c \in {Null, Num(3), Bool(TRUE), Str(<<"a", "b", "c", "d">>),
                   Str(<<>>), EmptyObj,
                   List(<<Str(<<"U", "S">>), Str(<<"T", "R">>),
                          Str(<<"D", "E">>), Str(<<"F", "R">>)>>)}}
    \cup {WithIaps(i) : i \in IapValues}

ExtractPlatforms == {"ios", "android"}

\* the identifier a handler passes along with the platform
IdentifierOf(platform) ==
    IF platform = "ios" THEN Num(1) ELSE Str(<<"c", ".", "a">>)

Application(op, arg, platform, includeCompetitors) ==
    [op |-> op, arg |-> arg, platform |-> platform,
     identifier |-> IdentifierOf(platform),
     includeCompetitors |-> includeCompetitors,
     out |-> Undefined, applied |-> FALSE]

\* a category with its rank
Category(k) == Obj([name |-> Str(<<"C">> \o NumberToString(k)), rank |-> Num(k)])

\* values of one chart of a bucket: absent at each level, and present
ChartValues ==
    {Null, EmptyObj,
     Obj([primary_categories |-> Null]),
     Obj([primary_categories |-> List(<<>>)]),
     Obj([primary_categories |-> List(<<Null>>)])}
    \cup {Obj([primary_categories |-> List(<<Category(k), Category(k + 1)>>)]) :
            k \in 1..MaxCategories}

Charts == {"top_free", "top_grossing", "top_paid"}

\* buckets: every chart with a value, and buckets without some chart
Buckets ==
    {Obj(b) : b \in [Charts -> ChartValues]}
    \cup {EmptyObj, Obj([top_paid |-> Obj([primary_categories |->
                                             List(<<Category(1)>>)])])}

\* values of category_rankings: absent and falsy values, values that are no
\* objects, a bucket for one device, for both, and charts with no bucket
RankingsValues ==
    {Undefined, Null, Num(0), Str(<<>>), Bool(FALSE),
     Num(5), Str(<<"x">>), List(<<>>),
     Obj([iphone |-> Null]), Obj([phone |-> Null]),
     Obj([iphone |-> Num(5)]), Obj([phone |-> Str(<<"x">>)])}
    \cup Buckets
    \cup {Obj([iphone |-> b]) : b \in Buckets}
    \cup {Obj([phone |-> b]) : b \in Buckets}
    \cup {Obj([iphone |-> Obj([top_free |-> c, top_grossing |-> c]),
               phone |-> Obj([top_free |-> e, top_paid |-> e]),
               top_paid |-> c, top_grossing |-> e]) :
            c, e \in ChartValues}

\* amounts in cents: the small amounts, both sides of the two thresholds,
\* and across both upper tiers the amounts halfway between two tenths and
\* their neighbours
CentsAmounts ==
    0..MaxSmallCents
    \cup {50000, 12340, 12345, 99999, 2500000, 150000000}
    \cup {100000 + d : d \in 0..MaxSmallCents}
    \cup {100000 - d : d \in 1..MaxSmallCents}
    \cup {5000 * j + d : j \in 20..400, d \in {-1, 0, 1}}
    \cup {99900000 + 1000 * j + d : j \in 0..200, d \in {-1, 0, 1}}
    \cup {5000000 * j + d : j \in 20..400, d \in {-1, 0, 1}}

\* cents of formatRevenue: an amount, or none
CentsValues == {Undefined, Null} \cup {Num(c) : c \in CentsAmounts}

Applications ==
    {Application("extract", p, f, TRUE) :
        p \in ExtractPayloads, f \in ExtractPlatforms}
    \cup {Application("process", p, f, b) :
            p \in ExtractPayloads, f \in ExtractPlatforms, b \in BOOLEAN}
    \cup {Application("iap", i, "ios", TRUE) : i \in IapValues}
    \cup {Application("format", c, "ios", TRUE) : c \in CentsValues}
    \cup {Application("rankings", r, f, TRUE) :
            r \in RankingsValues, f \in ExtractPlatforms}

InitPure ==
    /\ now = 0
    /\ ticks = 0
    /\ started = 0
    /\ cache = <<>>
    /\ writer = <<>>
    /\ inv = [v \in Slots |-> IdleInvocation]
    /\ twin = NoTwin
    /\ pure \in Applications

Apply(op, value) ==
    /\ pure.op = op
    /\ ~pure.applied
    /\ pure' = [pure EXCEPT !.out = value, !.applied = TRUE]
    /\ UNCHANGED <<now, ticks, started, cache, writer, inv, twin>>

\* extractEssentialRevenueData(rawData, platform, identifier)
ApplyExtract ==
    Apply("extract",
          extractEssentialRevenueData(pure.arg, pure.platform,
                                      pure.identifier))

\* the body of the loop of a handler for a payload its call returned
ApplyProcess ==
    Apply("process",
          ProcessPayload(pure.platform, pure.identifier,
                         pure.includeCompetitors, pure.arg))

\* extractTopIAPPrices(iapData)
ApplyIap == Apply("iap", extractTopIAPPrices(pure.arg))

\* formatRevenue(cents)
ApplyFormat == Apply("format", Str(formatRevenue(pure.arg)))

\* extractCategoryRankings(rankings, platform)
ApplyRankings ==
    Apply("rankings", extractCategoryRankings(pure.arg, pure.platform))

NextPure ==
    ApplyExtract \/ ApplyProcess \/ ApplyIap \/ ApplyFormat \/ ApplyRankings

SpecPure == InitPure /\ [][NextPure]_vars

(***************************************************************************)
(* Properties.                                                             *)
(***************************************************************************)
\* a call of callSensorTowerAPI has been made and the handler has not yet
\* resumed from it
InCall(v) == inv[v].pc \in {"fetching", "parsing", "settled"}

\* the age, at the cache lookup of the call, of the entry it found
SeenAge(v) == inv[v].call.at - inv[v].call.seen.v.timestamp.v

SawEntry(v) == inv[v].call.seen # Undefined

\* the step in which response.json() of the call of v yields its data
Stores(v) ==
    /\ inv[v].pc = "parsing"
    /\ inv'[v].pc = "settled"
    /\ inv'[v].outcome.t = "return"

\* C1: a call that finds, for its final cache key, an entry stored less
\* than 30 days before returns the payload of that entry and issues no
\* outbound request.
CacheHitWithinTTL ==
    \A v \in Slots :
        (InCall(v) /\ SawEntry(v) /\ SeenAge(v) < CACHE_DURATION)
            => /\ inv[v].pc = "settled"
               /\ inv[v].outcome = Return(inv[v].call.seen.v.data)
               /\ inv[v].call.requests = 0
               /\ inv[v].url = <<>>
               /\ inv[v].response = NoResponse

\* a call was served an entry one second before its expiry
WitnessHitBeforeExpiry ==
    \E v \in Slots :
        /\ inv[v].pc = "settled"
        /\ SawEntry(v)
        /\ SeenAge(v) = CACHE_DURATION - 1
        /\ inv[v].outcome = Return(inv[v].call.seen.v.data)

\* C2: a call that finds an entry stored 30 days before or earlier is not
\* served from it: it issues one outbound request and, when the body is
\* parsed, the entry of its key holds the new payload and the time of the
\* store, and the new payload is returned.
ExpiredLookup(v) == InCall(v) /\ SawEntry(v) /\ SeenAge(v) >= CACHE_DURATION

ExpiryIssuesRequest ==
    \A v \in Slots :
        ExpiredLookup(v)
            => /\ inv[v].call.requests = 1
               /\ inv[v].url # <<>>
               /\ inv[v].pc = "settled" => inv[v].response # NoResponse

ExpiryOverwrites ==
    \A v \in Slots :
        (ExpiredLookup(v) /\ Stores(v))
            => /\ inv[v].key \in DOMAIN cache'
               /\ cache'[inv[v].key] =
                      Obj([data |-> inv'[v].outcome.value,
                           timestamp |-> Num(now)])

ExpiryRefetches == []ExpiryIssuesRequest /\ [][ExpiryOverwrites]_vars

\* an entry found exactly 30 days old has been replaced by a newer payload
WitnessExpiredOverwritten ==
    \E v \in Slots :
        /\ inv[v].pc = "settled"
        /\ SawEntry(v)
        /\ SeenAge(v) = CACHE_DURATION
        /\ inv[v].outcome.t = "return"
        /\ inv[v].outcome.value # inv[v].call.seen.v.data
        /\ cache[inv[v].key].v.data = inv[v].outcome.value
        /\ cache[inv[v].key].v.timestamp = Num(now)

\* the call of v was answered from the cache
Hit(v) == inv[v].pc = "settled" /\ inv[v].call.requests = 0

\* the cache key base of a request
KeyBase(r) == CacheKey(r.platform, r.identifier)

Regions == {US, TR}

\* C3: for one cache key base and two different non-empty regions, a call
\* with one region is never answered from an entry stored by a call with
\* the other, and its store leaves the entry of the other region as it
\* was, present or absent.
NoCrossRegionHit ==
    \A v \in Slots :
        Hit(v) =>
            LET mine == Request(inv[v])
                theirs == writer[inv[v].key]
            IN  ~ /\ KeyBase(theirs) = KeyBase(mine)
                  /\ Truthy(theirs.country) /\ Truthy(mine.country)
                  /\ theirs.country # mine.country

NoCrossRegionStore ==
    \A v \in Slots :
        (Stores(v) /\ Truthy(inv[v].country)) =>
            \A other \in Regions \ {inv[v].country} :
                LET key == FinalCacheKey(KeyBase(Request(inv[v])), other)
                IN  CacheGet(cache', key) = CacheGet(cache, key)

RegionIsolation == []NoCrossRegionHit /\ [][NoCrossRegionStore]_vars

\* both regions of one base are cached, by fetches of their own, and a call
\* for one of them has been answered from its entry
WitnessTwoRegions ==
    \E v \in Slots :
        /\ Hit(v)
        /\ inv[v].country = TR
        /\ writer[inv[v].key].country = TR
        /\ LET key == FinalCacheKey(KeyBase(Request(inv[v])), US)
           IN  /\ key \in DOMAIN cache
               /\ writer[key].country = US
               /\ KeyBase(writer[key]) = KeyBase(Request(inv[v]))
               /\ cache[key] # cache[inv[v].key]

\* C4: the final cache key of the iOS tool differs from the final cache key
\* of the Android tool for every app id, package name and pair of regions,
\* and a call of one tool is never answered from an entry stored by the
\* other.
PlatformKeysDiffer ==
    \A appId \in KeyUniverse.appIds, packageName \in KeyUniverse.packageNames,
       c1 \in KeyUniverse.countries, c2 \in KeyUniverse.countries :
        FinalCacheKey(CacheKey("ios", appId), c1)
            # FinalCacheKey(CacheKey("android", packageName), c2)

NoCrossPlatformHit ==
    /\ PlatformKeysDiffer
    /\ \A v \in Slots :
           Hit(v) => writer[inv[v].key].platform = inv[v].platform

\* the Android tool is answered from its own entry for package "1" while
\* the entry of iOS app 1 is cached for the same region
WitnessBothPlatformsCached ==
    \E v \in Slots :
        /\ Hit(v)
        /\ inv[v].platform = "android"
        /\ TemplateString(inv[v].ids[inv[v].i]) = TemplateString(Num(1))
        /\ LET key == FinalCacheKey(CacheKey("ios", Num(1)), inv[v].country)
           IN  /\ key \in DOMAIN cache
               /\ writer[key].platform = "ios"

\* C8: sensorTowerCache is empty at process start and no step removes a
\* key; the entry of a key changes only in the step in which a fetch for
\* that key stores its parsed payload, so an expired entry stays until then.
NoKeyRemoved ==
    \A k \in DOMAIN cache :
        /\ k \in DOMAIN cache'
        /\ cache'[k] # cache[k] =>
               \E v \in Slots : Stores(v) /\ inv[v].key = k

EntriesNeverRemoved == cache = <<>> /\ [][NoKeyRemoved]_vars

\* an expired entry is still in the map after a later store under another key
WitnessExpiredEntryKept ==
    \E k1 \in DOMAIN cache, k2 \in DOMAIN cache :
        /\ k1 # k2
        /\ now - cache[k1].v.timestamp.v >= CACHE_DURATION
        /\ cache[k2].v.timestamp.v > cache[k1].v.timestamp.v

\* C9: a call that missed the cache stores its parsed payload even when
\* another call has stored an entry for the same key since its lookup; the
\* entry of the key is then the one of this later store.  The overlap of
\* two such calls is reachable.
StoreAfterOtherStore(v) ==
    /\ Stores(v)
    /\ CacheGet(cache, inv[v].key) # inv[v].call.seen

LaterStoreWins ==
    \A v \in Slots :
        StoreAfterOtherStore(v) =>
            /\ cache'[inv[v].key] =
                   Obj([data |-> inv'[v].outcome.value,
                        timestamp |-> Num(now)])
            /\ \A w \in Slots \ {v} : inv'[w] = inv[w]

LastWriteWins == [][LaterStoreWins]_vars

\* two overlapping calls for one key both missed, both issued a request and
\* both stored; the entry left is the payload of the second store
WitnessBothStored ==
    /\ inv["A"].pc = "settled" /\ inv["B"].pc = "settled"
    /\ inv["A"].key = inv["B"].key
    /\ inv["A"].call.requests = 1 /\ inv["B"].call.requests = 1
    /\ inv["A"].call.seen = inv["B"].call.seen
    /\ inv["A"].outcome = Return(PayloadA)
    /\ inv["B"].outcome = Return(PayloadB)
    /\ cache[inv["A"].key].v.data = PayloadB

\* the upstream answered the call of v with status 429
RateLimited(v) == ~inv[v].response.rejected /\ inv[v].response.status = 429

\* the step in which the handler pushes the entry of the settled call of v
Pushes(v) ==
    /\ inv[v].pc = "settled"
    /\ Len(inv'[v].results) = Len(inv[v].results) + 1

\* the entry pushed in that step
Pushed(v) == inv'[v].results[Len(inv'[v].results)]

\* C5: a call answered with status 429 fails with exactly the message
\* 'Rate limit exceeded. Please try again later.', without the prefix
\* 'Failed to fetch data from Sensor Tower: ', and the batch entry of the
\* identifier carries that message.
RateLimitThrown ==
    \A v \in Slots :
        (inv[v].pc = "settled" /\ RateLimited(v))
            => /\ inv[v].outcome = Throw(RateLimitMessage)
               /\ ~StartsWith(inv[v].outcome.msg, WrapPrefix)

RateLimitPushed ==
    \A v \in Slots :
        (Pushes(v) /\ RateLimited(v))
            => /\ Prop(Pushed(v), "success") = Bool(FALSE)
               /\ Prop(Pushed(v), "error") = Str(RateLimitMessage)
               /\ Prop(Pushed(v), IdentifierField(inv[v].platform))
                      = inv[v].ids[inv[v].i]

RateLimitUnwrapped == []RateLimitThrown /\ [][RateLimitPushed]_vars

\* the first two identifiers of a batch were both answered with 429: the
\* entry of the first is pushed, the call of the second has just failed
WitnessRateLimited ==
    \E v \in Slots :
        /\ inv[v].pc = "settled"
        /\ RateLimited(v)
        /\ inv[v].i = 2
        /\ Prop(inv[v].results[1], "error") = Str(RateLimitMessage)
        /\ inv[v].outcome = Throw(RateLimitMessage)

\* C6: a failed call is reported without the prefix 'Failed to fetch data
\* from Sensor Tower: ' if and only if the upstream status was 429; every
\* other failure carries the prefix.
OnlyRateLimitUnwrapped ==
    \A v \in Slots :
        (inv[v].pc = "settled" /\ inv[v].outcome.t = "throw")
            => (StartsWith(inv[v].outcome.msg, WrapPrefix) <=> ~RateLimited(v))

\* C7: when a call fails, the cache map is what it was when the call began,
\* the expired entry of the requested key included.
CacheUntouchedOnFailure ==
    \A v \in Slots :
        (inv[v].pc = "settled" /\ inv[v].outcome.t = "throw")
            => cache = inv[v].call.before

\* a call that found an expired entry got a body that is no JSON, and the
\* expired entry is still the entry of its key
WitnessFailureKeepsExpired ==
    \E v \in Slots :
        /\ inv[v].pc = "settled"
        /\ inv[v].outcome.t = "throw"
        /\ inv[v].response.status = 200
        /\ ExpiredLookup(v)
        /\ cache[inv[v].key] = inv[v].call.seen

\* C10: the result list has one entry per identifier in input order; the
\* entry of an identifier whose fetch failed has success false and the
\* error message, the entry of every other identifier has success true
\* and its data; identifiers after a failed one are still processed.
OneEntryPerIdentifier ==
    \A v \in Slots :
        inv[v].pc = "done"
            => /\ Len(inv[v].results) = Len(inv[v].ids)
               /\ \A k \in 1..Len(inv[v].ids) :
                      Prop(inv[v].results[k], IdentifierField(inv[v].platform))
                          = inv[v].ids[k]

EntryFollowsFetch ==
    \A v \in Slots :
        Pushes(v)
            => /\ Len(inv[v].results) = inv[v].i - 1
               /\ Prop(Pushed(v), IdentifierField(inv[v].platform))
                      = inv[v].ids[inv[v].i]
               /\ inv[v].outcome.t = "throw"
                      => /\ Prop(Pushed(v), "success") = Bool(FALSE)
                         /\ Prop(Pushed(v), "error") = Str(inv[v].outcome.msg)
               /\ inv[v].outcome.t = "return"
                      => /\ Prop(Pushed(v), "success") = Bool(TRUE)
                         /\ "data" \in DOMAIN Pushed(v).v

BatchFailureIsolation == []OneEntryPerIdentifier /\ [][EntryFollowsFetch]_vars

\* an invocation has built its result and not yet handed it over
Done(v) == inv[v].pc = "done"

\* the JSON document held by the text block of the result of v
Document(v) == inv[v].ret.v.content.v[1].v.text.v

\* how many entries of the apps list of a document carry a success flag
EntriesWithSuccess(doc, flag) ==
    Cardinality({k \in 1..Len(doc.v.apps.v) :
                    doc.v.apps.v[k].v.success = Bool(flag)})

\* C11: in the summary a handler returns, total_apps is the number of
\* identifiers it was given, successful the number of entries whose success
\* is true, failed the number of entries whose success is false, and
\* successful + failed = total_apps.
SummaryCounts ==
    \A v \in Slots :
        Done(v) =>
            LET doc == Document(v)
            IN  /\ doc.v.total_apps = Num(Len(inv[v].ids))
                /\ doc.v.successful = Num(EntriesWithSuccess(doc, TRUE))
                /\ doc.v.failed = Num(EntriesWithSuccess(doc, FALSE))
                /\ doc.v.successful.v + doc.v.failed.v = doc.v.total_apps.v

\* a batch of two identifiers has ended with one success and one failure
WitnessMixedBatch ==
    \E v \in Slots :
        /\ Done(v)
        /\ Document(v).v.total_apps = Num(2)
        /\ Document(v).v.successful = Num(1)
        /\ Document(v).v.failed = Num(1)

\* C12: a scalar identifier x and the one-element list [x] give, from the
\* same cache and with the same upstream answers, the same summary, the
\* same outbound requests and the same changes of the cache.
SameSummary ==
    /\ Done("A") <=> twin.inv.pc = "done"
    /\ twin.inv.ret = inv["A"].ret
    /\ twin.inv.results = inv["A"].results
SameRequests ==
    /\ twin.inv.pc = inv["A"].pc
    /\ twin.inv.url = inv["A"].url
    /\ twin.inv.call.requests = inv["A"].call.requests
SameCacheChanges ==
    /\ twin.cache = cache
    /\ twin.inv.key = inv["A"].key
ScalarIsOneElementList == SameSummary /\ SameRequests /\ SameCacheChanges

\* both runs have answered a second invocation from the entry that the first
\* one stored, and hold the summary of one app
WitnessPairServedFromCache ==
    /\ Done("A")
    /\ twin.inv.pc = "done"
    /\ started = 2
    /\ inv["A"].call = NoCall
    /\ DOMAIN cache # {}
    /\ DOMAIN twin.cache # {}
    /\ Document("A").v.total_apps = Num(1)
    /\ twin.inv.ret.v.content.v[1].v.text.v.v.successful = Num(1)

\* a value that JSON text can denote
RECURSIVE IsJson(_)
IsJson(x) ==
    CASE x.t \in {"null", "bool", "num", "str"} -> TRUE
      [] x.t = "obj" -> \A k \in DOMAIN x.v : IsJson(x.v[k])
      [] x.t = "list" -> \A k \in 1..Len(x.v) : IsJson(x.v[k])
      [] OTHER -> FALSE

\* a summary or an error object
SummaryOrError(doc) ==
    /\ doc.t = "obj"
    /\ \/ DOMAIN doc.v = {"total_apps", "successful", "failed", "apps"}
       \/ DOMAIN doc.v = {"error", "platform"}

\* a result with exactly one content block, of type text, whose text is
\* serialized JSON
OneTextBlock(ret) ==
    /\ ret.t = "obj"
    /\ DOMAIN ret.v = {"content"}
    /\ ret.v.content.t = "list"
    /\ Len(ret.v.content.v) = 1
    /\ LET block == ret.v.content.v[1]
       IN  /\ block.t = "obj"
           /\ DOMAIN block.v = {"type", "text"}
           /\ block.v.type = Str(<<"t", "e", "x", "t">>)
           /\ block.v.text.t = "json"
           /\ IsJson(block.v.text.v)
           /\ SummaryOrError(block.v.text.v)

\* C13: whatever the input, the cache and the upstream answers, a revenue
\* handler that has finished holds a result with exactly one text content
\* block of serialized JSON, a summary or an error object; a handler that
\* has not finished holds no result, and none ever holds a raised error.
HandlerNeverFaults ==
    \A v \in Slots :
        /\ inv[v].pc \in {"idle", "fetching", "parsing", "settled", "done"}
        /\ Done(v) => OneTextBlock(inv[v].ret)
        /\ ~Done(v) => inv[v].ret = Undefined

\* a handler has finished although a TypeError was raised inside its loop
\* for one identifier and every call for the other failed upstream
WitnessErrorsAbsorbed ==
    \E v \in Slots :
        /\ Done(v)
        /\ Len(inv[v].results) = 2
        /\ Prop(inv[v].results[1], "error") = Str(TextNullEssential)
        /\ Prop(inv[v].results[2], "error")
               = Str(WrapPrefix \o TextFetchFailed)

\* the function op has been applied
Applied(op) == pure.op = op /\ pure.applied

Sections ==
    {"app_info", "revenue_metrics", "market_position", "monetization",
     "competitive_analysis"}

\* C14: extractEssentialRevenueData returns null for an absent payload;
\* for the payload {} and platform 'ios' it returns a full record with
\* category 'Unknown', last_month_revenue 0, revenue_formatted '$0' and
\* top_competitors []; for no payload, platform or identifier does it raise.
ExtractionNullSafe ==
    Applied("extract") =>
        /\ Nullish(pure.arg) => pure.out = Null
        /\ (pure.arg = EmptyObj /\ pure.platform = "ios") =>
               /\ pure.out.t = "obj"
               /\ DOMAIN pure.out.v = Sections
               /\ pure.out.v.app_info.v.category
                      = Str(<<"U", "n", "k", "n", "o", "w", "n">>)
               /\ pure.out.v.revenue_metrics.v.last_month_revenue = Num(0)
               /\ pure.out.v.revenue_metrics.v.revenue_formatted
                      = Str(<<"$", "0">>)
               /\ pure.out.v.competitive_analysis.v.top_competitors
                      = List(<<>>)
        /\ ~IsThrow(pure.out)

\* the empty payload has been extracted for iOS, and gave a record
WitnessEmptyPayloadExtracted ==
    /\ Applied("extract")
    /\ pure.arg = EmptyObj
    /\ pure.platform = "ios"
    /\ pure.out.t = "obj"
    /\ "app_info" \in DOMAIN pure.out.v

\* a present payload whose shape makes a field access of the extraction
\* fail: related_apps is there and is no list, or has null among the
\* entries that are mapped, or top_countries is there and cannot be sliced
AccessFails(rawData) ==
    /\ Truthy(rawData)
    /\ LET ra == Prop(rawData, "related_apps")
           tc == Prop(rawData, "top_countries")
       IN  \/ ~Nullish(ra) /\ ra.t # "list"
           \/ /\ ra.t = "list"
              /\ \E k \in 1..Len(ra.v) : k <= 3 /\ Nullish(ra.v[k])
           \/ ~Nullish(tc) /\ tc.t \notin {"list", "str"}

\* { error: 'Failed to extract data: ...', raw_data_available: true }
IsDegraded(data) ==
    /\ data.t = "obj"
    /\ DOMAIN data.v = {"error", "raw_data_available"}
    /\ data.v.error.t = "str"
    /\ StartsWith(data.v.error.v, ExtractPrefix)
    /\ Len(data.v.error.v) > Len(ExtractPrefix)
    /\ data.v.raw_data_available = Bool(TRUE)

\* C15: for a present payload whose shape makes a field access fail during
\* extraction, extractEssentialRevenueData returns the degraded record
\* { error: 'Failed to extract data: ...', raw_data_available: true } and
\* the handler records the entry with success true and that record as data,
\* whatever includeCompetitors is; no other present payload degrades.
DegradedExtraction ==
    /\ Applied("extract") =>
          /\ AccessFails(pure.arg) => IsDegraded(pure.out)
          /\ (Truthy(pure.arg) /\ ~AccessFails(pure.arg))
                => DOMAIN pure.out.v = Sections
    /\ (Applied("process") /\ AccessFails(pure.arg)) =>
          /\ DOMAIN pure.out.v
                = {IdentifierField(pure.platform), "success", "data"}
          /\ pure.out.v.success = Bool(TRUE)
          /\ pure.out.v[IdentifierField(pure.platform)] = pure.identifier
          /\ IsDegraded(pure.out.v.data)

\* a payload with a null element inside related_apps has been recorded, with
\* competitors not requested, as a success that carries the degraded record
WitnessDegradedRecorded ==
    /\ Applied("process")
    /\ ~pure.includeCompetitors
    /\ pure.arg
          = WithRelatedApps(List(<<RelatedApp(1), Null, RelatedApp(3)>>))
    /\ pure.out.v.success = Bool(TRUE)
    /\ pure.out.v.data.v.error = Str(ExtractPrefix \o TextNullCompetitor)

IsDigit(ch) == \E d \in 0..9 : Digit(d) = ch
DigitValue(ch) == CHOOSE d \in 0..9 : Digit(d) = ch

\* a decimal numeral without sign and without leading zeros
IsNumeral(s) ==
    /\ s # <<>>
    /\ \A k \in 1..Len(s) : IsDigit(s[k])
    /\ Len(s) > 1 => s[1] # "0"

RECURSIVE NumeralValue(_)
NumeralValue(s) ==
    IF s = <<>> THEN 0
    ELSE NumeralValue(SubSeq(s, 1, Len(s) - 1)) * 10 + DigitValue(s[Len(s)])

\* the place of the decimal point of a text, 0 when it has none
PointAt(s) ==
    IF \E k \in 1..Len(s) : s[k] = "."
    THEN CHOOSE k \in 1..Len(s) :
            s[k] = "." /\ \A j \in 1..(k - 1) : s[j] # "."
    ELSE 0

\* a text that writes a number with one decimal
HasOneDecimal(s) ==
    /\ Len(s) >= 3
    /\ PointAt(s) = Len(s) - 1
    /\ IsNumeral(SubSeq(s, 1, Len(s) - 2))
    /\ IsDigit(s[Len(s)])

\* the tenths a text with one decimal writes
Tenths(s) ==
    NumeralValue(SubSeq(s, 1, Len(s) - 2)) * 10 + DigitValue(s[Len(s)])

\* a text that writes a number of dollars with at most two decimals, none
\* of them a trailing zero
IsPlainAmount(s) ==
    LET p == PointAt(s)
    IN  IF p = 0 THEN IsNumeral(s)
        ELSE /\ IsNumeral(SubSeq(s, 1, p - 1))
             /\ Len(s) - p \in {1, 2}
             /\ \A k \in (p + 1)..Len(s) : IsDigit(s[k])
             /\ s[Len(s)] # "0"

\* the cents a plain amount writes
Hundredths(s) ==
    LET p == PointAt(s)
    IN  IF p = 0 THEN NumeralValue(s) * 100
        ELSE NumeralValue(SubSeq(s, 1, p - 1)) * 100
             + (IF Len(s) - p = 1 THEN DigitValue(s[Len(s)]) * 10
                ELSE NumeralValue(SubSeq(s, p + 1, Len(s))))

\* text is '$', a number with one decimal that is c / unit rounded to a
\* nearest tenth, and the suffix
InTier(text, c, unit, suffix) ==
    /\ Len(text) >= 5
    /\ text[1] = "$"
    /\ text[Len(text)] = suffix
    /\ LET number == SubSeq(text, 2, Len(text) - 1)
           step == unit \div 10
       IN  /\ HasOneDecimal(number)
           /\ Tenths(number) * step - c <= step \div 2
           /\ c - Tenths(number) * step <= step \div 2

\* text is '$' and c / 100
InPlainTier(text, c) ==
    /\ Len(text) >= 2
    /\ text[1] = "$"
    /\ IsPlainAmount(Tail(text))
    /\ Hundredths(Tail(text)) = c

FormatExamples ==
    [c \in {50000, 2500000, 150000000, 99999, 100000, 99999999, 100000000}
       |-> CASE c = 50000 -> <<"$", "5", "0", "0">>
             [] c = 2500000 -> <<"$", "2", "5", ".", "0", "K">>
             [] c = 150000000 -> <<"$", "1", ".", "5", "M">>
             [] c = 99999 -> <<"$", "9", "9", "9", ".", "9", "9">>
             [] c = 100000 -> <<"$", "1", ".", "0", "K">>
             [] c = 99999999 -> <<"$", "1", "0", "0", "0", ".", "0", "K">>
             [] c = 100000000 -> <<"$", "1", ".", "0", "M">>]

\* C16: for a non-negative integer c of cents formatRevenue returns '$0'
\* when c is 0 or absent; '$' and c / 100 when 0 < c < 100000; '$', c / 100000
\* with one decimal and 'K' when 100000 <= c < 100000000; '$', c / 100000000
\* with one decimal and 'M' when c >= 100000000; so 50000 gives '$500',
\* 2500000 gives '$25.0K', 150000000 gives '$1.5M', and the amounts on both
\* sides of each threshold are in the stated tier.
RevenueTiers ==
    Applied("format") =>
        LET text == pure.out.v
            c == pure.arg.v
        IN  /\ (Nullish(pure.arg) \/ pure.arg = Num(0)) => text = <<"$", "0">>
            /\ (pure.arg.t = "num" /\ 0 < c /\ c < 100000)
                  => InPlainTier(text, c)
            /\ (pure.arg.t = "num" /\ 100000 <= c /\ c < 100000000)
                  => InTier(text, c, 100000, "K")
            /\ (pure.arg.t = "num" /\ c >= 100000000)
                  => InTier(text, c, 100000000, "M")
            /\ (pure.arg.t = "num" /\ c \in DOMAIN FormatExamples)
                  => text = FormatExamples[c]

\* the amount just under the upper threshold has been formatted, in
\* thousands
WitnessJustBelowMillion ==
    /\ Applied("format")
    /\ pure.arg = Num(99999999)
    /\ pure.out.v[Len(pure.out.v)] = "K"

\* the first of two fields that an entry has
FirstField(app, a, b) ==
    IF a \in DOMAIN app.v THEN app.v[a]
    ELSE IF b \in DOMAIN app.v THEN app.v[b]
    ELSE Undefined

\* an entry of related_apps reduced to name, rating and price
Reduced(app) ==
    Obj([name |-> FirstField(app, "name", "title"),
         rating |-> FirstField(app, "rating", "score"),
         price |-> IF "price" \in DOMAIN app.v THEN app.v.price.v.string_value
                   ELSE IF "priceText" \in DOMAIN app.v THEN app.v.priceText
                   ELSE Str(<<"F", "r", "e", "e">>)])

\* related_apps is a list of entries that are objects
WellFormedRelatedApps(rawData) ==
    /\ rawData.t = "obj"
    /\ "related_apps" \in DOMAIN rawData.v
    /\ rawData.v.related_apps.t = "list"
    /\ \A k \in 1..Len(rawData.v.related_apps.v) :
          rawData.v.related_apps.v[k].t = "obj"

RECURSIVE FirstSeen(_, _)
FirstSeen(s, seen) ==
    IF s = <<>> THEN <<>>
    ELSE IF Head(s) \in seen /\ Head(s).t \notin {"obj", "list"}
    THEN FirstSeen(Tail(s), seen)
    ELSE <<Head(s)>> \o FirstSeen(Tail(s), seen \cup {Head(s)})

\* the US bucket of a value of top_in_app_purchases is a list whose first
\* three entries are there
HasUSBucket(iapData) ==
    /\ iapData.t = "obj"
    /\ "US" \in DOMAIN iapData.v
    /\ iapData.v.US.t = "list"
    /\ \A k \in 1..Len(iapData.v.US.v) :
          k <= 3 => ~Nullish(iapData.v.US.v[k])

\* the price of an entry
PriceOf(iap) ==
    IF iap.t = "obj" /\ "price" \in DOMAIN iap.v THEN iap.v.price
    ELSE Undefined

RegionBlindEntry ==
    \A v \in Slots :
        (Pushes(v) /\ inv[v].outcome.t = "return") =>
            /\ Pushed(v) = ResultEntry([inv[v] EXCEPT !.country = Undefined])
            /\ HasUSBucket(Prop(inv[v].outcome.value, "top_in_app_purchases"))
                  => LET us == inv[v].outcome.value.v.top_in_app_purchases.v.US.v
                         n == IF Len(us) < 3 THEN Len(us) ELSE 3
                     IN  Pushed(v).v.data.v.monetization.v.top_iap_prices
                            = List(FirstSeen([k \in 1..n |-> PriceOf(us[k])],
                                             {}))
RegionBlindExtraction == [][RegionBlindEntry]_vars

\* a request for the region TR has ended with the prices of the US bucket
\* of a payload that has a bucket for TR as well
WitnessRegionalRequestUSPrices ==
    \E v \in Slots :
        /\ Done(v)
        /\ inv[v].country = TR
        /\ Len(inv[v].results) = 1
        /\ inv[v].results[1].v.success = Bool(TRUE)
        /\ inv[v].results[1].v.data.v.monetization.v.top_iap_prices
              = List(<<Price(1), Price(2)>>)

OtherSections == Sections \ {"competitive_analysis"}

\* the entry is a success
IsSuccess(entry) == entry.v.success = Bool(TRUE)

\* the data of an entry has competitive_analysis exactly when asked to, and
\* its other four sections are those of the extracted record in either case
AnalysisAsRequested(entry, includeCompetitors, essentialData) ==
    /\ entry.v.data.t = "obj"
    /\ DOMAIN entry.v.data.v
          = (IF includeCompetitors THEN Sections ELSE OtherSections)
    /\ \A k \in OtherSections : entry.v.data.v[k] = essentialData.v[k]

\* C20 as stated: for every successful batch entry built from a present
\* payload, data has competitive_analysis when includeCompetitors is true
\* and has none when it is false, the other four sections being the same.
AnalysisOmittedForEveryPayload ==
    (Applied("process") /\ Truthy(pure.arg) /\ IsSuccess(pure.out)) =>
        AnalysisAsRequested(pure.out, pure.includeCompetitors,
            extractEssentialRevenueData(pure.arg, pure.platform,
                                        pure.identifier))

\* C20, amended: for every batch entry built from a present payload whose
\* extraction does not degrade, the entry is a success whose data has
\* competitive_analysis when includeCompetitors is true and has none when
\* it is false, the other four sections being the same; the data of a
\* degraded extraction has no competitive_analysis in either case.
AnalysisOmittedOnRequest ==
    Applied("process") =>
        /\ (Truthy(pure.arg) /\ ~AccessFails(pure.arg)) =>
              /\ IsSuccess(pure.out)
              /\ AnalysisAsRequested(pure.out, pure.includeCompetitors,
                     extractEssentialRevenueData(pure.arg, pure.platform,
                                                 pure.identifier))
        /\ AccessFails(pure.arg) =>
              "competitive_analysis" \notin DOMAIN pure.out.v.data.v

\* a payload with related apps has been recorded without its competitors
WitnessAnalysisDeleted ==
    /\ Applied("process")
    /\ ~pure.includeCompetitors
    /\ pure.arg = WithRelatedApps(List(RelatedApps(3)))
    /\ IsSuccess(pure.out)
    /\ DOMAIN pure.out.v.data.v = OtherSections

\* the bucket of the device of a platform
DeviceBucket(platform) == IF platform = "ios" THEN "iphone" ELSE "phone"

\* x has the field k, and its value is neither null nor undefined
Has(x, k) == x.t = "obj" /\ k \in DOMAIN x.v /\ ~Nullish(x.v[k])

\* the structure below a bucket is there at every level for a chart: the
\* chart, its primary_categories and the first element of that list
ChartPresent(bucket, chart) ==
    /\ Has(bucket, chart)
    /\ Has(bucket.v[chart], "primary_categories")
    /\ bucket.v[chart].v.primary_categories.t = "list"
    /\ Len(bucket.v[chart].v.primary_categories.v) >= 1
    /\ ~Nullish(bucket.v[chart].v.primary_categories.v[1])

\* the ranking of a chart read from a bucket: its first primary category,
\* or null when the structure is absent at some level
RankingFrom(bucket, chart) ==
    IF ChartPresent(bucket, chart)
    THEN bucket.v[chart].v.primary_categories.v[1]
    ELSE Null

\* C21 as stated: the rankings are read from the 'iphone' bucket for 'ios'
\* and from the 'phone' bucket otherwise, and where the structure is absent
\* at any level (the rankings value, the device bucket, a chart, its
\* primary_categories or its first element) the corresponding ranking among
\* top_free, top_grossing and top_paid is null; no error is raised.
RankingsFromDeviceBucketOrNull ==
    Applied("rankings") =>
        /\ ~IsThrow(pure.out)
        /\ \A chart \in Charts :
              /\ chart \in DOMAIN pure.out.v
              /\ pure.out.v[chart]
                    = (IF Has(pure.arg, DeviceBucket(pure.platform))
                       THEN RankingFrom(
                                pure.arg.v[DeviceBucket(pure.platform)], chart)
                       ELSE Null)

\* C21, amended: for an absent rankings value the result is {} and has none
\* of the three rankings; otherwise the rankings are read from the 'iphone'
\* bucket for 'ios' and from the 'phone' bucket otherwise, or from the
\* rankings value itself when it has no such bucket, and where the
\* structure below is absent at any level (a chart, its primary_categories
\* or its first element) the corresponding ranking is null; no error is
\* raised.
RankingsResolution ==
    Applied("rankings") =>
        /\ ~IsThrow(pure.out)
        /\ ~Truthy(pure.arg) => pure.out = EmptyObj
        /\ Truthy(pure.arg) =>
              LET bucket ==
                      IF /\ Has(pure.arg, DeviceBucket(pure.platform))
                         /\ Truthy(pure.arg.v[DeviceBucket(pure.platform)])
                      THEN pure.arg.v[DeviceBucket(pure.platform)]
                      ELSE pure.arg
              IN  /\ DOMAIN pure.out.v = Charts
                  /\ \A chart \in Charts :
                        pure.out.v[chart] = RankingFrom(bucket, chart)

\* rankings with a bucket for either device have been resolved for Android:
\* the charts of the phone bucket are read, and a chart it lacks is null
WitnessPhoneBucketRead ==
    /\ Applied("rankings")
    /\ pure.platform = "android"
    /\ Has(pure.arg, "iphone")
    /\ Has(pure.arg, "phone")
    /\ ChartPresent(pure.arg.v.iphone, "top_free")
    /\ ChartPresent(pure.arg.v.iphone, "top_grossing")
    /\ pure.out.v.top_free = Category(2)
    /\ pure.out.v.top_free # RankingFrom(pure.arg.v.iphone, "top_free")
    /\ pure.out.v.top_grossing = Null

\* the first of two candidate fields that a payload has, or a default
FirstPresent(x, a, b, default) ==
    IF Has(x, a) THEN x.v[a] ELSE IF Has(x, b) THEN x.v[b] ELSE default

\* the field of a field of a payload, or a default
Nested(x, a, b, default) ==
    IF Has(x, a) /\ Has(x.v[a], b) THEN x.v[a].v[b] ELSE default

\* C22: every field of the record is the first present candidate of its
\* fallback chain (name then title, publisher_name then developer, rating
\* then score, rating_count then reviews, price.string_value then priceText,
\* has_in_app_purchases then offersIAP), and with no candidate present it is
\* its default: 0 for revenue, downloads, rating count and related apps
\* count, 'Unknown' for category, [] for every collection, 'Free' for price.
FieldFallbackAndDefaults ==
    (Applied("extract") /\ pure.arg.t = "obj" /\ ~AccessFails(pure.arg)) =>
        LET raw == pure.arg
            info == pure.out.v.app_info.v
            revenue == pure.out.v.revenue_metrics.v
            market == pure.out.v.market_position.v
            money == pure.out.v.monetization.v
            analysis == pure.out.v.competitive_analysis.v
        IN  /\ info.name = FirstPresent(raw, "name", "title", info.name)
            /\ info.publisher
                  = FirstPresent(raw, "publisher_name", "developer",
                                 info.publisher)
            /\ market.overall_rating
                  = FirstPresent(raw, "rating", "score", market.overall_rating)
            /\ market.rating_count
                  = FirstPresent(raw, "rating_count", "reviews", Num(0))
            /\ money.price
                  = Nested(raw, "price", "string_value",
                           FirstPresent(raw, "priceText", "priceText",
                                        Str(<<"F", "r", "e", "e">>)))
            /\ money.has_in_app_purchases
                  = FirstPresent(raw, "has_in_app_purchases", "offersIAP",
                                 money.has_in_app_purchases)
            /\ revenue.last_month_revenue
                  = Nested(raw, "worldwide_last_month_revenue", "value", Num(0))
            /\ revenue.last_month_downloads
                  = Nested(raw, "worldwide_last_month_downloads", "value",
                           Num(0))
            /\ Has(raw, "related_apps")
                  \/ analysis.related_apps_count = Num(0)
            /\ Has(raw, "categories")
                  \/ info.category = Str(<<"U", "n", "k", "n", "o", "w", "n">>)
            /\ Has(raw, "top_countries") \/ market.top_countries = List(<<>>)
            /\ Has(raw, "top_in_app_purchases")
                  \/ money.top_iap_prices = List(<<>>)
            /\ Has(raw, "related_apps") \/ analysis.top_competitors = List(<<>>)

\* the call of v has issued an outbound request
Requested(v) == InCall(v) /\ inv[v].call.requests = 1

\* the endpoint of a request, before the region
EndpointBase(r) == Endpoint(r.platform, r.identifier)

\* C23: in every call that issues a request, the URL is the endpoint with
\* '?country=<region>' appended if and only if the final cache key is the
\* key base with '_<region>' appended, for the same region; with no region
\* the URL is the bare endpoint and the key the bare key base.
RegionInUrlAndKey ==
    \A v \in Slots :
        Requested(v) =>
            LET r == Request(inv[v])
            IN  /\ \A c \in Regions :
                      (inv[v].url = EndpointBase(r) \o CountryQuery \o c.v)
                         <=> (inv[v].key = KeyBase(r) \o <<"_">> \o c.v)
                /\ \A c \in Regions :
                      r.country = c
                         => inv[v].url = EndpointBase(r) \o CountryQuery \o c.v
                /\ ~Truthy(r.country)
                      => /\ inv[v].url = EndpointBase(r)
                         /\ inv[v].key = KeyBase(r)

\* a request for the region TR is in flight, with the region in its URL
\* and in its key
WitnessRegionInUrlAndKey ==
    \E v \in Slots :
        /\ inv[v].pc = "fetching"
        /\ inv[v].country = TR
        /\ inv[v].url = EndpointBase(Request(inv[v])) \o CountryQuery \o TR.v
        /\ inv[v].key = KeyBase(Request(inv[v])) \o <<"_">> \o TR.v

\* the identifier an entry was recorded for
EntryIdentifier(platform, entry) == entry.v[IdentifierField(platform)]

\* while a call is pending, it is the call for the identifier at the loop
\* position, every earlier identifier has its entry, in input order, and
\* no later one has
OneCallInInputOrder ==
    \A v \in Slots :
        InCall(v) =>
            /\ inv[v].i \in 1..Len(inv[v].ids)
            /\ Len(inv[v].results) = inv[v].i - 1
            /\ \A k \in 1..Len(inv[v].results) :
                  EntryIdentifier(inv[v].platform, inv[v].results[k])
                     = inv[v].ids[k]
            /\ inv[v].key
                  = FinalCacheKey(CacheKey(inv[v].platform,
                                           inv[v].ids[inv[v].i]),
                                  inv[v].country)
            /\ Requested(v) =>
                  inv[v].url
                     = FinalEndpoint(Endpoint(inv[v].platform,
                                              inv[v].ids[inv[v].i]),
                                     inv[v].country)

\* a step in which the invocation of v issues an outbound request
Issues(v) ==
    /\ inv'[v].pc = "fetching"
    /\ inv[v].pc # "fetching"

\* a request is issued when the handler is entered, for the first
\* identifier, or when the call before has settled and its entry is
\* appended in the same step, for the next identifier
IssuedAfterEntryAppended ==
    \A v \in Slots :
        Issues(v) =>
            \/ inv[v].pc = "idle" /\ inv'[v].i = 1
            \/ /\ inv[v].pc = "settled"
               /\ inv'[v].i = inv[v].i + 1
               /\ Len(inv'[v].results) = inv[v].i
               /\ EntryIdentifier(inv[v].platform, Pushed(v))
                     = inv[v].ids[inv[v].i]

\* C24: within one invocation the outbound requests are issued in input
\* order and at most one call is pending at any time; the request for
\* identifier i+1 is issued only after the call for identifier i has
\* settled and its entry has been appended.
SequentialFanOut == []OneCallInInputOrder /\ [][IssuedAfterEntryAppended]_vars

\* the request for the second identifier of a batch is in flight after the
\* entry of the first, a different app, was appended
WitnessSecondRequestInFlight ==
    \E v \in Slots :
        /\ inv[v].pc = "fetching"
        /\ inv[v].i = 2
        /\ Len(inv[v].results) = 1
        /\ inv[v].ids[1] # inv[v].ids[2]

\* C25: two requests of one tool that differ in identifier or in region
\* (absent or present) have different final cache keys, so a call is never
\* answered from an entry stored for another (identifier, region) pair:
\* the entry that answers a call was stored by a request for the same
\* platform, identifier and region.
InjectiveKeys ==
    \A v \in Slots :
        Hit(v) =>
            /\ inv[v].key \in DOMAIN writer
            /\ writer[inv[v].key].platform = inv[v].platform
            /\ writer[inv[v].key].identifier = inv[v].ids[inv[v].i]
            /\ writer[inv[v].key].country = inv[v].country

\* C26: for every payload a call returns, a null payload included, and
\* every identifier, the entry has the same success flag with
\* includeCompetitors true and with includeCompetitors false.
SuccessWhateverCompetitors ==
    Applied("process") =>
        pure.out.v.success
           = ProcessPayload(pure.platform, pure.identifier,
                            ~pure.includeCompetitors, pure.arg).v.success

\* the step in which a call of v is answered from the cache
Hits(v) ==
    /\ inv[v].pc \in {"idle", "settled"}
    /\ inv'[v] # inv[v]
    /\ inv'[v].pc = "settled"
    /\ inv'[v].call.requests = 0

\* a cache hit leaves the whole cache as it was
HitLeavesCache == \A v \in Slots : Hits(v) => cache' = cache

\* an entry changes only in the step in which a fetch stores it, and its
\* timestamp is then the time of that store
TimestampIsTimeOfStore ==
    \A k \in DOMAIN cache' :
        (k \notin DOMAIN cache \/ cache'[k] # cache[k]) =>
            /\ \E v \in Slots : Stores(v) /\ inv[v].key = k
            /\ cache'[k].v.timestamp = Num(now)

\* C27: a cache hit leaves the whole cache map unchanged, the timestamp of
\* the entry it served included, so that an entry expires 30 days after the
\* fetch that stored it however often it is read in between: timestamps are
\* set by stores only, and a call is answered from an entry exactly when
\* the entry is less than 30 days old.
NoSlidingExpiration ==
    /\ [](\A v \in Slots :
            (InCall(v) /\ SawEntry(v)) =>
                (inv[v].call.requests = 0 <=> SeenAge(v) < CACHE_DURATION))
    /\ [][HitLeavesCache /\ TimestampIsTimeOfStore]_vars

\* an entry was read one second after its store, and 30 days after its
\* store a second call finds the same entry, unchanged, and fetches
WitnessReadThenExpired ==
    \E v, w \in Slots :
        /\ Hit(w)
        /\ SawEntry(w)
        /\ SeenAge(w) = 1
        /\ inv[v].pc = "fetching"
        /\ SawEntry(v)
        /\ SeenAge(v) = CACHE_DURATION
        /\ inv[v].call.seen = inv[w].call.seen
        /\ inv[v].key = inv[w].key

\* a request is issued for a loop position that had none: the position
\* moves on in the step that issues, and a failed call is never fetched
\* again
OneRequestPerIdentifier ==
    \A v \in Slots :
        /\ Issues(v) => inv'[v].i = (IF inv[v].pc = "idle" THEN 1
                                     ELSE inv[v].i + 1)
        /\ (inv[v].pc \in {"fetching", "parsing"} /\ inv'[v] # inv[v])
              => /\ inv'[v].i = inv[v].i
                 /\ inv'[v].pc \in {"parsing", "settled"}

\* the handler resumes from a call that failed with the rate-limit error
\* and a later identifier is left
ResumesRateLimited(v) ==
    /\ Pushes(v)
    /\ RateLimited(v)
    /\ inv[v].i < Len(inv[v].ids)

\* in that very step the call for the next identifier is made: a request
\* is issued unless the cache holds a valid entry for it
NextRequestAfterRateLimit ==
    \A v \in Slots :
        ResumesRateLimited(v) =>
            LET next == inv[v].ids[inv[v].i + 1]
                key == FinalCacheKey(CacheKey(inv[v].platform, next),
                                     inv[v].country)
                valid == /\ key \in DOMAIN cache
                         /\ now - cache[key].v.timestamp.v < CACHE_DURATION
            IN  /\ inv'[v].i = inv[v].i + 1
                /\ now' = now
                /\ ~valid => /\ inv'[v].pc = "fetching"
                             /\ inv'[v].call.requests = 1
                             /\ inv'[v].url
                                   = FinalEndpoint(
                                         Endpoint(inv[v].platform, next),
                                         inv[v].country)
                /\ valid => inv'[v].pc = "settled"

\* C28: one invocation issues at most one outbound request per input
\* identifier, and after an identifier has failed with the rate-limit error
\* it still issues, without waiting, a request for every later identifier
\* that has no valid cache entry.
NoRetryNoBackOff == [][OneRequestPerIdentifier /\ NextRequestAfterRateLimit]_vars

\* the request for the second identifier is in flight after the first
\* failed with the rate-limit error
WitnessRequestAfterRateLimit ==
    \E v \in Slots :
        /\ inv[v].pc = "fetching"
        /\ inv[v].i = 2
        /\ Prop(inv[v].results[1], "error") = Str(RateLimitMessage)

\* building the record and pushing the entry leaves the cache as it was
PushLeavesCache == \A v \in Slots : Pushes(v) => cache' = cache

\* an entry changes only in the step in which a fetch stores it, and its
\* data is then the payload the upstream returned in that fetch
DataIsPayloadOfStore ==
    \A k \in DOMAIN cache' :
        (k \notin DOMAIN cache \/ cache'[k] # cache[k]) =>
            \E v \in Slots :
                /\ Stores(v)
                /\ inv[v].key = k
                /\ cache'[k].v.data = inv'[v].outcome.value

\* C29: after any sequence of invocations, with includeCompetitors true or
\* false and with extraction succeeding or degrading, the data of every
\* cache entry is the payload the upstream returned in the fetch that
\* stored it: building the record and deleting competitive_analysis act on
\* the record of the request only.
CachedPayloadsUnaltered == [][PushLeavesCache /\ DataIsPayloadOfStore]_vars

\* a batch without competitors has ended with a trimmed record for a
\* payload that the cache still holds with its related apps
WitnessTrimmedRecordFullPayload ==
    \E v \in Slots :
        /\ Done(v)
        /\ ~inv[v].includeCompetitors
        /\ Len(inv[v].results) >= 1
        /\ inv[v].results[1].v.success = Bool(TRUE)
        /\ inv[v].results[1].v.data.t = "obj"
        /\ DOMAIN inv[v].results[1].v.data.v = OtherSections
        /\ LET key == FinalCacheKey(CacheKey(inv[v].platform, inv[v].ids[1]),
                                    inv[v].country)
           IN  /\ key \in DOMAIN cache
               /\ cache[key].v.data = PayloadA
               /\ "related_apps" \in DOMAIN cache[key].v.data.v

\* the invocation in slot v has returned its summary with one entry for
\* every identifier of its list, in input order
Returned(v) ==
    /\ Done(v)
    /\ Len(inv[v].results) = Len(inv[v].ids)
    /\ \A k \in 1..Len(inv[v].ids) :
          EntryIdentifier(inv[v].platform, inv[v].results[k]) = inv[v].ids[k]
    /\ Document(v).v.total_apps = Num(Len(inv[v].ids))

\* C30: for every finite identifier list, if every outbound request
\* eventually completes, with a response or a failure, an invocation that
\* has been entered eventually returns its summary after processing every
\* identifier exactly once, whatever the cache holds, whatever fails and
\* whatever another invocation does.
BatchTerminates ==
    \A v \in Slots : (inv[v].pc # "idle") ~> Returned(v)

\* an invocation has returned its summary for a list of two identifiers
\* whose first request was rate limited, while another invocation is still
\* waiting for its request
WitnessReturnedBesidePending ==
    \E v, w \in Slots :
        /\ v # w
        /\ Returned(v)
        /\ Len(inv[v].ids) = 2
        /\ Prop(inv[v].results[1], "error") = Str(RateLimitMessage)
        /\ inv[w].pc = "fetching"

====
